---------------------------- MODULE Spec2Model ----------------------------
(***************************************************************************)
(* A model of the server pipeline of trojan-go: the Trojan server          *)
(* (authentication, dispatch, per-connection accounting) and the TLS       *)
(* server (handshake fallback, post-handshake demultiplexing).             *)
(*                                                                         *)
(* Byte strings are sequences of numbers 0..255; text is its ASCII codes.  *)
(***************************************************************************)
EXTENDS Integers, Sequences, FiniteSets, TLC

----------------------------------------------------------------------------
(* Bounds of the model *)

\* number of connections the underlay hands to a server in one run
NConn == 2

\* number of Read/Write calls made on authenticated connections in one run
MaxIO == 2

Conns == 1..NConn

----------------------------------------------------------------------------
(* Bytes and helpers *)

Min(a, b) == IF a < b THEN a ELSE b

Rep(n, b) == [i \in 1..n |-> b]

Take(s, n) == SubSeq(s, 1, Min(n, Len(s)))

Drop(s, n) == SubSeq(s, Min(n, Len(s)) + 1, Len(s))

Range(s) == {s[i] : i \in 1..Len(s)}

\* the frame's CRLF, X'0D0A'
CR == 13
LF == 10
CRLF == <<CR, LF>>

\* userHash := [56]byte{}
HashLen == 56

\* capacity of the inter-layer channels: make(chan tunnel.Conn, 32)
ChanCap == 32

\* rewindConn.SetBufferSize(128)
TrojanBufferSize == 128

\* Trojan commands
Connect == 1
Associate == 3
Mux == 127

\* address types of the request header
IPv4 == 1
DomainName == 3
IPv6 == 4

\* "MUX_CONN"
MuxConnName == <<77, 85, 88, 95, 67, 79, 78, 78>>

\* "a.io"
SomeName == <<97, 46, 105, 111>>

----------------------------------------------------------------------------
(* RewindConn: a stream wrapper with a bounded replay buffer.              *)
(* raw is what the underlying stream still holds, buf the replay buffer,   *)
(* idx the read cursor in buf.                                             *)

NewRewindConn(raw) ==
    [raw |-> raw, buf |-> <<>>, idx |-> 0, buffering |-> FALSE, size |-> 0,
     overflow |-> FALSE]

SetBufferSize(rc, n) == [rc EXCEPT !.size = n, !.buffering = TRUE]

Rewind(rc) == [rc EXCEPT !.idx = 0]

StopBuffering(rc) == [rc EXCEPT !.buffering = FALSE]

\* what a reader of rc will see from now on: the rest of the buffer, then the
\* underlying stream
Pending(rc) == Drop(rc.buf, rc.idx) \o rc.raw

\* One Read(p) with len(p) = n whose underlying read returns at most seg
\* bytes: [rc, data, err].  Buffered bytes are drained first; a read of the
\* underlying stream is appended to the buffer while buffering, and fails
\* when that would exceed the capacity.
RewindRead(rc, n, seg) ==
    IF rc.idx < Len(rc.buf)
    THEN LET k == Min(n, Len(rc.buf) - rc.idx) IN
         [rc |-> [rc EXCEPT !.idx = rc.idx + k],
          data |-> SubSeq(rc.buf, rc.idx + 1, rc.idx + k),
          err |-> FALSE]
    ELSE LET k == Min(Min(n, seg), Len(rc.raw))
             data == Take(rc.raw, k)
         IN  IF k = 0
             THEN [rc |-> rc, data |-> <<>>, err |-> TRUE]
             ELSE IF rc.buffering /\ Len(rc.buf) + k > rc.size
             THEN [rc |-> [rc EXCEPT !.overflow = TRUE], data |-> <<>>,
                   err |-> TRUE]
             ELSE IF rc.buffering
             THEN [rc |-> [rc EXCEPT !.raw = Drop(rc.raw, k),
                                     !.buf = rc.buf \o data,
                                     !.idx = Len(rc.buf) + k],
                   data |-> data, err |-> FALSE]
             ELSE [rc |-> [rc EXCEPT !.raw = Drop(rc.raw, k)],
                   data |-> data, err |-> FALSE]

\* io.ReadFull(rc, p) with len(p) = n: reads until n bytes were read or a
\* read fails
RECURSIVE ReadFullFrom(_, _, _)
ReadFullFrom(rc, n, acc) ==
    IF n = 0
    THEN [rc |-> rc, data |-> acc, err |-> FALSE]
    ELSE LET r == RewindRead(rc, n, n) IN
         IF r.err
         THEN [rc |-> r.rc, data |-> acc, err |-> TRUE]
         ELSE ReadFullFrom(r.rc, n - Len(r.data), acc \o r.data)

ReadFull(rc, n) == ReadFullFrom(rc, n, <<>>)

----------------------------------------------------------------------------
(* The authenticator and its users *)

Users == {"u1"}

\* the ip_limit a user may be configured with
IPLimits == {1}

NoUser == "nil"

\* hex(SHA224(password)) of a configured password: 56 ASCII bytes
HashOf(u) == Rep(HashLen, 97)

\* a well-formed hash no user has
UnknownHash == Rep(HashLen, 120)

\* Authenticator.AuthUser(hash): (valid, user)
AuthUser(hash) ==
    IF \E u \in Users : HashOf(u) = hash
    THEN [valid |-> TRUE, user |-> CHOOSE u \in Users : HashOf(u) = hash]
    ELSE [valid |-> FALSE, user |-> NoUser]

\* User.AddIP(ip) on a user whose IP set is ips and whose limit is limit
\* (0: unlimited): [ok, ips]
AddIP(ips, limit, ip) ==
    IF ip \in ips
    THEN [ok |-> TRUE, ips |-> ips]
    ELSE IF limit > 0 /\ Cardinality(ips) >= limit
    THEN [ok |-> FALSE, ips |-> ips]
    ELSE [ok |-> TRUE, ips |-> ips \cup {ip}]

\* User.DelIP(ip)
DelIP(ips, ip) == ips \ {ip}

\* User.AddTraffic(sent, recv) on the totals t
AddTraffic(t, sent, recv) == [sent |-> t.sent + sent, recv |-> t.recv + recv]

----------------------------------------------------------------------------
(* Remote addresses and net.SplitHostPort *)

NoIP == ""

\* net.SplitHostPort(addr): [host, err]
SplitHostPort(a) ==
    CASE a = "10.0.0.1:4001" -> [host |-> "10.0.0.1", err |-> FALSE]
      [] a = "10.0.0.2:4002" -> [host |-> "10.0.0.2", err |-> FALSE]
      [] OTHER -> [host |-> NoIP, err |-> TRUE]

----------------------------------------------------------------------------
(* The request header: CMD:1 | ATYP:1 | DST.ADDR:var | DST.PORT:2 *)

NoMetadata ==
    [Command |-> 0, AddressType |-> 0, DomainName |-> <<>>, IP |-> <<>>,
     Port |-> 0]

MetadataError(rc, cmd) ==
    [rc |-> rc, err |-> TRUE, md |-> [NoMetadata EXCEPT !.Command = cmd]]

\* Address.ReadFrom, the end: b is the read of the address and the port
AddressPort(cmd, atyp, n, b) ==
    IF b.err THEN MetadataError(b.rc, cmd) ELSE
    [rc |-> b.rc, err |-> FALSE,
     md |-> [Command |-> cmd, AddressType |-> atyp,
             DomainName |-> IF atyp = DomainName THEN Take(b.data, n) ELSE <<>>,
             IP |-> IF atyp = DomainName THEN <<>> ELSE Take(b.data, n),
             Port |-> b.data[n + 1] * 256 + b.data[n + 2]]]

\* Address.ReadFrom for a domain name: l is the read of its length byte
AddressDomain(cmd, l) ==
    IF l.err THEN MetadataError(l.rc, cmd)
    ELSE AddressPort(cmd, DomainName, l.data[1], ReadFull(l.rc, l.data[1] + 2))

\* Address.ReadFrom: t is the read of ATYP; the address by its type, then
\* the big-endian port
AddressReadFrom(cmd, t) ==
    IF t.err THEN MetadataError(t.rc, cmd)
    ELSE CASE t.data[1] = IPv4 -> AddressPort(cmd, IPv4, 4, ReadFull(t.rc, 6))
           [] t.data[1] = IPv6 -> AddressPort(cmd, IPv6, 16, ReadFull(t.rc, 18))
           [] t.data[1] = DomainName -> AddressDomain(cmd, ReadFull(t.rc, 1))
           [] OTHER -> MetadataError(t.rc, cmd)

\* Metadata.ReadFrom, c being the read of the command byte
MetadataCommand(c) ==
    IF c.err THEN MetadataError(c.rc, 0)
    ELSE AddressReadFrom(c.data[1], ReadFull(c.rc, 1))

\* Metadata.ReadFrom: the command byte, then the address
MetadataReadFrom(rc) == MetadataCommand(ReadFull(rc, 1))

\* what a client writes for a header
Header(cmd, atyp, host, port) ==
    <<cmd, atyp>> \o (IF atyp = DomainName THEN <<Len(host)>> ELSE <<>>)
    \o host \o <<port \div 256, port % 256>>

----------------------------------------------------------------------------
(* The Trojan server *)

VARIABLES
    tConn,        \* tConn[c]: the connection the underlay returned
    tPc,          \* tPc[c]: where the handler task of connection c stands
    tRw,          \* tRw[c]: the handler's rewindConn
    tIn,          \* tIn[c]: the handler's InboundConn
    tAuth,        \* tAuth[c]: the calls of Auth() on c and the steps they ran
    tRedir,       \* tRedir[c]: the Redirections made for c
    tSent,        \* tSent[c]: the channels c was sent on, in order
    tGot,         \* tGot[c]: the accept calls that returned c
    connChan,     \* Server.connChan
    muxChan,      \* Server.muxChan
    packetChan,   \* Server.packetChan
    userIPs,      \* userIPs[u]: the IP set of user u
    userLimit,    \* userLimit[u]: the ip_limit of user u, 0 for none
    userTraffic,  \* userTraffic[u]: the traffic totals of user u
    tIO           \* tIO[c]: what the underlying connection saw after Auth()

trojanVars ==
    <<tConn, tPc, tRw, tIn, tAuth, tRedir, tSent, tGot, connChan, muxChan,
      packetChan, userIPs, userLimit, userTraffic, tIO>>

VARIABLES
    sPc,        \* sPc[c]: where connection c's handler is
    sClient,    \* sClient[c]: what the client of c sends
    sHs,        \* sHs[c]: handshakeRewindConn
    sRw,        \* sRw[c]: rewindConn, over the decrypted stream
    sErr,       \* sErr[c]: Handshake's error message, <<>> for none
    sLog,       \* sLog[c]: what the handler did with c, in order
    sGot,       \* sGot[c]: the AcceptConn calls that returned c
    tlsConnChan, \* Server.connChan
    wsChan,     \* Server.wsChan
    nextHTTP,   \* Server.nextHTTP
    tlsServer   \* the Server's configuration fields

tlsVars == <<sPc, sClient, sHs, sRw, sErr, sLog, sGot, tlsConnChan, wsChan,
             nextHTTP, tlsServer>>

VARIABLES
    mIn,        \* the arguments of a call of isDomainNameMatched
    mOut        \* the call's result, once it has returned

matchVars == <<mIn, mOut>>

VARIABLES
    wsServer,   \* the fields of the WebSocket server, and whether its ctx
                \* is cancelled
    wPc,        \* wPc[c]: where AcceptConn is with connection c: "none"
                \* (not taken from the underlay), "select", "check",
                \* "returned"
    wClient,    \* wClient[c]: what the client of c sends
    wRw,        \* wRw[c]: the rewindConn AcceptConn wraps c in
    wLog,       \* wLog[c]: the Redirections and Close calls made for c
    wRet,       \* wRet[c]: what AcceptConn returned for c
    wsConn,     \* wsConn[c]: the Handler of c has stored the websocket
    wCtx,       \* wCtx[c]: the context of the attempt: "none", "live",
                \* "cancelled"
    wGo,        \* wGo[c]: where the ServeHTTP task of c is: "none",
                \* "handshaking", "handler", "sending", "waiting",
                \* "returned"
    wFired      \* wFired[c]: where the ServeHTTP task of c was when the
                \* timer of c fired, "no" when it has not fired

wsVars == <<wsServer, wPc, wClient, wRw, wLog, wRet, wsConn, wCtx, wGo, wFired>>

VARIABLES
    trServer,   \* the transport server: its nextHTTP, and whether its ctx
                \* is cancelled and its listener closed
    trLoop,     \* the accept loop of the transport server: "running" or
                \* "returned"
    pPc,        \* pPc[c]: where the handler of TCP connection c is: "none",
                \* "handler", "send", "sent"
    pClient,    \* pClient[c]: the bytes the client of c sends
    pRw,        \* pRw[c]: the stream of c as the handler leaves it
    pConn,      \* pConn[c]: what the handler wraps in Conn: "tcpConn" or
                \* "rewindConn"
    pDest,      \* pDest[c]: the channel the handler sends c on
    pSaw,       \* pSaw[c]: the nextHTTP the handler read
    trConnChan, \* connChan of the transport server
    trWsChan,   \* wsChan of the transport server
    pGot,       \* pGot[c]: the overlays AcceptConn returned c to
    sDone       \* ctx of the TLS server is cancelled

trVars == <<trServer, trLoop, pPc, pClient, pRw, pConn, pDest, pSaw,
            trConnChan, trWsChan, pGot>>

VARIABLES
    lnk,        \* the channel between two layers that is looked at
    lDone,      \* Proxy.Close was called: the top-level context, and with it
                \* the context of every server, is cancelled and the
                \* listener is closed
    chLen,      \* the number of connections the channel holds
    lLoop,      \* lLoop.producer, lLoop.consumer: the accept loop that
                \* starts the handlers sending on the channel, and the loop
                \* that receives from it: "running" or "returned"
    hPc,        \* hPc[c]: where the handler of connection c is: "none",
                \* "reading", "sending", "exited"
    relays      \* the number of relay handlers that are running

linkVars == <<lnk, lDone, chLen, lLoop, hPc, relays>>

VARIABLES
    rKind,      \* what the relay loop looked at relays: "conn" or "packet"
    rLoop,      \* where that loop is: "accepting", "failed" (the accept
                \* returned an error), "returned"
    rErrs,      \* the number of accept errors the loop has seen
    rLog,       \* what the loop has logged
    rPc,        \* rPc[c]: where the handler of inbound c is: "none",
                \* "dial", "select", "returned"
    rIn,        \* rIn[c]: the inbound connection
    rOut,       \* rOut[c]: the outbound connection
    rDials,     \* rDials[c]: the addresses the handler of c dialed
    rCopy,      \* rCopy[c].up, rCopy[c].down: the two copy tasks
    rErrChan,   \* rErrChan[c]: errChan of the handler of c
    rGot        \* rGot[c]: the case the select of the handler took

relayVars == <<rKind, rLoop, rErrs, rLog, rPc, rIn, rOut, rDials, rCopy, rErrChan, rGot>>

VARIABLES
    kFiles,     \* the key file and the certificate file: the version each holds
    kSlot,      \* s.keyPair[0]: the pair the server presents
    kLock,      \* s.keyPairLock: whether the writer holds it, and the readers
    kLoop,      \* checkKeyPairLoop: where it is and its local variables
    kLook       \* kLook[c]: the GetCertificate call of the handshake of c

keyPairVars == <<kFiles, kSlot, kLock, kLoop, kLook>>

VARIABLES
    apSource,   \* the server whose AcceptPacket the packet loop calls
    apResult    \* what the last call did: "none", "error", "panic"

acceptPacketVars == <<apSource, apResult>>

VARIABLES
    oFlags,     \* the command line: -server, -password, -stdin-format, -config
    oData,      \* whether a proxy can be built from the configuration given
    oDefault,   \* whether config.json is in the working directory
    handlers,   \* option.handlers: the names of the handlers still registered
    mHandler,   \* h of main: the handler popped last
    mPc,        \* where main is: "pop", "handle", "run", "exited"
    exitCode    \* the exit code of the process, "none" while it runs

optionVars == <<oFlags, oData, oDefault, handlers, mHandler, mPc, exitCode>>

VARIABLES
    ctxDone,    \* ctxDone[x]: the context x is cancelled
    cancelling, \* the children that the running cancel() of the proxy has still to cancel
    closing,    \* the servers whose Close() the running Close() has still to call
    shutdownBy, \* what began the shutdown: "none", "cancel", or the server closed
    queued,     \* the connections in connChan of the transport server
    tlsPc       \* acceptLoop of the TLS server: "accept", "erred", "returned", "fatal"

contextVars == <<ctxDone, cancelling, closing, shutdownBy, queued, tlsPc>>

VARIABLES
    ldKey,      \* the key file that loadKeyPair is given
    ldCert,     \* the certificate file
    ldPassword, \* the password of the configuration
    ldRet       \* what loadKeyPair returned

loadVars == <<ldKey, ldCert, ldPassword, ldRet>>

VARIABLES
    mxDone,     \* the context of the mux server is cancelled
    mxWorker,   \* acceptConnWorker: "running" or "returned"
    mxTask,     \* mxTask[k]: the session task of carrier connection k
    mxChan,     \* connChan of the mux server
    mxGot       \* what AcceptConn of the mux server returned, in order

muxVars == <<mxDone, mxWorker, mxTask, mxChan, mxGot>>

VARIABLES
    tnCfg,      \* the server configuration: transport plugin, shadowsocks
    tnNodes,    \* the nodes of the protocol tree, in order of creation
    tnServers,  \* the servers constructed, in order of construction
    tnRegs,     \* root, trojanSubTree, wsSubTree and the node of the running chain
    tnPc,       \* the statement of the server creator that runs next
    tnList,     \* serverList
    tnExit      \* how the creator ended: "none", "fatal", "error", "created"

treeVars == <<tnCfg, tnNodes, tnServers, tnRegs, tnPc, tnList, tnExit>>

\* what the operations of one part of the program leave alone
nonTrojanVars == <<tlsVars, matchVars, wsVars, trVars, sDone, linkVars, relayVars, keyPairVars, acceptPacketVars, optionVars, contextVars, loadVars, muxVars, treeVars>>
nonTLSVars == <<trojanVars, matchVars, wsVars, trVars, sDone, linkVars, relayVars, keyPairVars, acceptPacketVars, optionVars, contextVars, loadVars, muxVars, treeVars>>
nonMatchVars == <<trojanVars, tlsVars, wsVars, trVars, sDone, linkVars, relayVars, keyPairVars, acceptPacketVars, optionVars, contextVars, loadVars, muxVars, treeVars>>
nonWSVars == <<trojanVars, tlsVars, matchVars, trVars, sDone, linkVars, relayVars, keyPairVars, acceptPacketVars, optionVars, contextVars, loadVars, muxVars, treeVars>>
nonTransportVars == <<trojanVars, tlsVars, matchVars, wsVars, sDone, linkVars, relayVars, keyPairVars, acceptPacketVars, optionVars, contextVars, loadVars, muxVars, treeVars>>
nonLinkVars == <<trojanVars, tlsVars, matchVars, wsVars, trVars, sDone, relayVars, keyPairVars, acceptPacketVars, optionVars, contextVars, loadVars, muxVars, treeVars>>
nonRelayVars == <<trojanVars, tlsVars, matchVars, wsVars, trVars, sDone, linkVars, keyPairVars, acceptPacketVars, optionVars, contextVars, loadVars, muxVars, treeVars>>
nonKeyPairVars == <<trojanVars, tlsVars, matchVars, wsVars, trVars, sDone, linkVars, relayVars, acceptPacketVars, optionVars, contextVars, loadVars, muxVars, treeVars>>
nonAcceptPacketVars == <<trojanVars, tlsVars, matchVars, wsVars, trVars, sDone, linkVars, relayVars, keyPairVars, optionVars, contextVars, loadVars, muxVars, treeVars>>
nonOptionVars == <<trojanVars, tlsVars, matchVars, wsVars, trVars, sDone, linkVars, relayVars, keyPairVars, acceptPacketVars, contextVars, loadVars, muxVars, treeVars>>
nonContextVars == <<trojanVars, tlsVars, matchVars, wsVars, trVars, sDone, linkVars, relayVars, keyPairVars, acceptPacketVars, optionVars, loadVars, muxVars, treeVars>>
nonLoadVars == <<trojanVars, tlsVars, matchVars, wsVars, trVars, sDone, linkVars, relayVars, keyPairVars, acceptPacketVars, optionVars, contextVars, muxVars, treeVars>>
nonMuxVars == <<trojanVars, tlsVars, matchVars, wsVars, trVars, sDone, linkVars, relayVars, keyPairVars, acceptPacketVars, optionVars, contextVars, loadVars, treeVars>>
nonTreeVars == <<trojanVars, tlsVars, matchVars, wsVars, trVars, sDone, linkVars, relayVars, keyPairVars, acceptPacketVars, optionVars, contextVars, loadVars, muxVars>>

\* the configured fallback: remote_addr:remote_port
RedirAddr == "127.0.0.1:80"

NoConn == [raw |-> <<>>, seg |-> 0, addr |-> "", closed |-> FALSE]

NewInboundConn ==
    [hash |-> <<>>, user |-> NoUser, ip |-> NoIP, metadata |-> NoMetadata,
     hasMetadata |-> FALSE, sent |-> 0, recv |-> 0]

\* what the connection under the rewindConn and the user saw of an
\* InboundConn: the bytes its Write and Read calls returned, the number of
\* Read and Write calls, the last AddTraffic call, the DelIP calls, the Close
\* calls
NoIO ==
    [written |-> 0, read |-> 0, calls |-> 0, last |-> <<0, 0>>,
     delIP |-> <<>>, closes |-> 0]

\* the user's side of Auth(): whether AddIP was called, with which ip, what
\* it returned, and the user's IP set after it
NoAddIP(ips) == [called |-> FALSE, ip |-> NoIP, ok |-> FALSE, ips |-> ips]

AddIPCall(ips, limit, ip) ==
    [called |-> TRUE, ip |-> ip, ok |-> AddIP(ips, limit, ip).ok,
     ips |-> AddIP(ips, limit, ip).ips]

\* what Auth() leaves: the rewind connection, the InboundConn's fields, the
\* AddIP call, the steps it ran and its error ("" for nil)
AuthResult(rc, ic, ad, steps, err) ==
    [rc |-> rc, ic |-> ic, addIP |-> ad, steps |-> steps, err |-> err]

\* Auth(), the end: c2 is the read of the CRLF after the header
AuthCRLF2(ic, c2, ad) ==
    AuthResult(c2.rc, ic, ad,
               <<"hash", "AuthUser", "AddIP", "crlf", "header", "crlf">>,
               IF c2.err THEN "read crlf" ELSE "")

\* a header read that stops Auth()
AuthHeaderError(ic, m, ad) ==
    AuthResult(m.rc, [ic EXCEPT !.metadata = m.md, !.hasMetadata = TRUE], ad,
               <<"hash", "AuthUser", "AddIP", "crlf", "header">>, "read header")

\* an Auth() that returns after the header, without reading the second CRLF
AuthHeaderOnly(ic, m, ad) ==
    IF m.err
    THEN AuthHeaderError(ic, m, ad)
    ELSE AuthResult(m.rc, [ic EXCEPT !.metadata = m.md, !.hasMetadata = TRUE],
                    ad, <<"hash", "AuthUser", "AddIP", "crlf", "header", "crlf">>,
                    "")

\* Auth(): m is what Metadata.ReadFrom returned
AuthHeader(ic, m, ad) ==
    IF m.err
    THEN AuthHeaderError(ic, m, ad)
    ELSE AuthCRLF2([ic EXCEPT !.metadata = m.md, !.hasMetadata = TRUE],
                   ReadFull(m.rc, 2), ad)

\* Auth(): c1 is the read of the CRLF after the hash
AuthCRLF1(ic, c1, ad) ==
    IF c1.err
    THEN AuthResult(c1.rc, ic, ad, <<"hash", "AuthUser", "AddIP", "crlf">>,
                    "read crlf")
    ELSE AuthHeader(ic, MetadataReadFrom(c1.rc), ad)

\* an Auth() that does not look at what AddIP returned
AuthAddIPUnchecked(ic, rc, ad) == AuthCRLF1(ic, ReadFull(rc, 2), ad)

\* Auth(): ad is the call user.AddIP(ip) and what it returned
AuthAddIP(ic, rc, ad) ==
    IF ~ad.ok
    THEN AuthResult(rc, ic, ad, <<"hash", "AuthUser", "AddIP">>,
                    "ip limit reached")
    ELSE AuthCRLF1(ic, ReadFull(rc, 2), ad)

\* Auth(): sp is what net.SplitHostPort returned for the remote address
AuthIP(ic, rc, sp, ips, limit) ==
    IF sp.err
    THEN AuthResult(rc, ic, NoAddIP(ips), <<"hash", "AuthUser">>,
                    "failed to parse host")
    ELSE AuthAddIP([ic EXCEPT !.ip = sp.host], rc,
                   AddIPCall(ips, limit, sp.host))

\* Auth(): au is what the authenticator returned for userHash
AuthLookup(ic, rc, userHash, au, addr, ips, limit) ==
    IF ~au.valid
    THEN AuthResult(rc, ic, NoAddIP(ips), <<"hash", "AuthUser">>,
                    "invalid hash")
    ELSE AuthIP([ic EXCEPT !.hash = userHash, !.user = au.user], rc,
                SplitHostPort(addr), ips, limit)

\* Auth(): h is the one Read into userHash, a zeroed [56]byte
AuthHash(ic, h, userHash, addr, ips, limit) ==
    IF h.err \/ Len(h.data) # HashLen
    THEN AuthResult(h.rc, ic, NoAddIP(ips), <<"hash">>, "failed to read hash")
    ELSE AuthLookup(ic, h.rc, userHash, AuthUser(userHash), addr, ips, limit)

AuthRead(ic, h, addr, ips, limit) ==
    AuthHash(ic, h, h.data \o Rep(HashLen - Len(h.data), 0), addr, ips, limit)

\* InboundConn.Auth() over the rewind connection rc, whose first underlying
\* read returns at most seg bytes, from remote address addr, the user's IP
\* set being ips and its limit limit
Auth(ic, rc, seg, addr, ips, limit) ==
    AuthRead(ic, RewindRead(rc, HashLen, seg), addr, ips, limit)

\* a switch without the "MUX_CONN" case
RouteByCommandOnly(md) ==
    CASE md.Command = Connect -> "conn"
      [] md.Command = Associate -> "packet"
      [] md.Command = Mux -> "mux"
      [] OTHER -> "none"

\* the channel the handler sends an authenticated connection on
Route(md) ==
    CASE md.Command = Connect ->
             IF md.DomainName = MuxConnName THEN "mux" ELSE "conn"
      [] md.Command = Associate -> "packet"
      [] md.Command = Mux -> "mux"
      [] OTHER -> "none"

\* a handler that redirects without rewinding
FallbackNoRewind(c, rc) ==
    [rc |-> StopBuffering(rc),
     redirection |-> [RedirectTo |-> RedirAddr,
                      InboundConn |-> [kind |-> "rewindConn", conn |-> c],
                      idx |-> rc.idx, buffering |-> FALSE]]

\* what the handler hands to the redirector when Auth() failed
FallbackOf(c, rc) ==
    LET rw == StopBuffering(Rewind(rc)) IN
    [rc |-> rw,
     redirection |-> [RedirectTo |-> RedirAddr,
                      InboundConn |-> [kind |-> "rewindConn", conn |-> c],
                      idx |-> rw.idx, buffering |-> rw.buffering]]

----------------------------------------------------------------------------
(* What clients send *)

Payload == <<71, 69, 84>>

ConnectHeader == Header(Connect, DomainName, SomeName, 443)

Request(hash, crlf1, header, crlf2) == hash \o crlf1 \o header \o crlf2 \o Payload

\* a connection from remote address addr whose bytes arrive in one piece
From(addr, bytes) == [raw |-> bytes, seg |-> Len(bytes), addr |-> addr]

AddrA == "10.0.0.1:4001"
AddrB == "10.0.0.2:4002"

GoodRequests ==
    { From(AddrA, Request(HashOf("u1"), CRLF, ConnectHeader, CRLF)),
      From(AddrB, Request(HashOf("u1"), CRLF, ConnectHeader, CRLF)),
      From(AddrA, Request(HashOf("u1"), CRLF,
                          Header(Connect, DomainName, MuxConnName, 0), CRLF)),
      From(AddrA, Request(HashOf("u1"), CRLF,
                          Header(Associate, IPv4, <<8, 8, 8, 8>>, 53), CRLF)),
      From(AddrA, Request(HashOf("u1"), CRLF,
                          Header(Mux, DomainName, SomeName, 0), CRLF)) }

BadRequests ==
    { \* a whole request whose first 20 bytes arrive alone
      [raw |-> Request(HashOf("u1"), CRLF, ConnectHeader, CRLF), seg |-> 20,
       addr |-> AddrA],
      \* 56 bytes of 'x', then more
      From(AddrA, UnknownHash \o Payload),
      \* the stream ends after the hash
      From(AddrA, HashOf("u1")),
      \* an address type that does not exist
      From(AddrA, Request(HashOf("u1"), CRLF,
                          Header(Connect, 9, SomeName, 443), CRLF)),
      \* the stream ends before the second CRLF
      From(AddrB, HashOf("u1") \o CRLF \o ConnectHeader \o <<CR>>) }

OddRequests ==
    { \* a command that does not exist
      From(AddrA, Request(HashOf("u1"), CRLF,
                          Header(5, DomainName, SomeName, 443), CRLF)),
      \* two bytes that are not CRLF after the hash
      From(AddrA, Request(HashOf("u1"), <<0, 0>>, ConnectHeader, CRLF)),
      \* two bytes that are not CRLF after the header
      From(AddrA, Request(HashOf("u1"), CRLF, ConnectHeader, <<LF, CR>>)) }

Requests == GoodRequests \cup BadRequests \cup OddRequests

----------------------------------------------------------------------------
(* The Trojan server's operations *)

TrojanInit ==
    /\ tConn = [c \in Conns |-> NoConn]
    /\ tPc = [c \in Conns |-> "none"]
    /\ tRw = [c \in Conns |-> NewRewindConn(<<>>)]
    /\ tIn = [c \in Conns |-> NewInboundConn]
    /\ tAuth = [c \in Conns |->
                    [calls |-> 0, steps |-> <<>>, err |-> "",
                     addIP |-> [called |-> FALSE, ip |-> NoIP, ok |-> FALSE]]]
    /\ tRedir = [c \in Conns |-> <<>>]
    /\ tSent = [c \in Conns |-> <<>>]
    /\ tGot = [c \in Conns |-> <<>>]
    /\ connChan = <<>>
    /\ muxChan = <<>>
    /\ packetChan = <<>>
    /\ userIPs = [u \in Users |-> {}]
    /\ userLimit \in [Users -> IPLimits]
    /\ userTraffic = [u \in Users |-> [sent |-> 0, recv |-> 0]]
    /\ tIO = [c \in Conns |-> NoIO]

\* acceptLoop: the underlay returns a connection and its handler is started
TrojanAccept(c, reqs) ==
    /\ tPc[c] = "none"
    /\ \A d \in Conns : d < c => tPc[d] # "none"
    /\ \E r \in reqs :
           tConn' = [tConn EXCEPT ![c] = [raw |-> r.raw, seg |-> r.seg,
                                          addr |-> r.addr, closed |-> FALSE]]
    /\ tPc' = [tPc EXCEPT ![c] = "auth"]
    /\ UNCHANGED <<tRw, tIn, tAuth, tRedir, tSent, tGot, connChan, muxChan,
                   packetChan, userIPs, userLimit, userTraffic, tIO>>
    /\ UNCHANGED nonTrojanVars

\* the handler up to the end of Auth(): on an error it rewinds, redirects and
\* returns; otherwise it goes on to the dispatch
TrojanHandle(c) ==
    /\ tPc[c] = "auth"
    /\ LET rc0 == SetBufferSize(NewRewindConn(tConn[c].raw), TrojanBufferSize)
           u == AuthUser(Take(tConn[c].raw, HashLen)).user
           a == Auth(NewInboundConn, rc0, tConn[c].seg, tConn[c].addr,
                     IF u \in Users THEN userIPs[u] ELSE {},
                     IF u \in Users THEN userLimit[u] ELSE 0)
           fb == FallbackOf(c, a.rc)
       IN  /\ tAuth' = [tAuth EXCEPT ![c] =
                         [calls |-> @.calls + 1,
                          steps |-> @.steps \o a.steps,
                          err |-> a.err,
                          addIP |-> [called |-> a.addIP.called,
                                     ip |-> a.addIP.ip, ok |-> a.addIP.ok]]]
           /\ tIn' = [tIn EXCEPT ![c] = a.ic]
           /\ userIPs' = IF a.ic.user \in Users
                         THEN [userIPs EXCEPT ![a.ic.user] = a.addIP.ips]
                         ELSE userIPs
           /\ IF a.err # ""
              THEN /\ tRw' = [tRw EXCEPT ![c] = StopBuffering(fb.rc)]
                   /\ tRedir' = [tRedir EXCEPT ![c] = Append(@, fb.redirection)]
                   /\ tPc' = [tPc EXCEPT ![c] = "done"]
              ELSE /\ tRw' = [tRw EXCEPT ![c] = StopBuffering(a.rc)]
                   /\ tRedir' = tRedir
                   /\ tPc' = [tPc EXCEPT ![c] = "dispatch"]
    /\ UNCHANGED <<tConn, tSent, tGot, connChan, muxChan, packetChan,
                   userLimit, userTraffic, tIO>>
    /\ UNCHANGED nonTrojanVars

\* the handler's switch on the command: a send on one channel, which waits
\* while the channel is full, or none for an unknown command
TrojanDispatch(c) ==
    /\ tPc[c] = "dispatch"
    /\ LET to == Route(tIn[c].metadata) IN
       /\ CASE to = "mux" ->
                   /\ Len(muxChan) < ChanCap
                   /\ muxChan' = Append(muxChan, [kind |-> "InboundConn", conn |-> c])
                   /\ UNCHANGED <<connChan, packetChan>>
            [] to = "conn" ->
                   /\ Len(connChan) < ChanCap
                   /\ connChan' = Append(connChan, [kind |-> "InboundConn", conn |-> c])
                   /\ UNCHANGED <<muxChan, packetChan>>
            [] to = "packet" ->
                   /\ Len(packetChan) < ChanCap
                   /\ packetChan' = Append(packetChan, [kind |-> "PacketConn", conn |-> c])
                   /\ UNCHANGED <<connChan, muxChan>>
            [] OTHER -> UNCHANGED <<connChan, muxChan, packetChan>>
       /\ tSent' = [tSent EXCEPT ![c] = IF to = "none" THEN @ ELSE Append(@, to)]
    /\ tRw' = [tRw EXCEPT ![c] = StopBuffering(@)]
    /\ tPc' = [tPc EXCEPT ![c] = "done"]
    /\ UNCHANGED <<tConn, tIn, tAuth, tRedir, tGot, userIPs, userLimit,
                   userTraffic, tIO>>
    /\ UNCHANGED nonTrojanVars

\* Server.AcceptConn(nextTunnel): a mux overlay receives from muxChan, any
\* other caller from connChan
TrojanAcceptConn(overlay) ==
    /\ IF overlay = "MUX"
       THEN /\ muxChan # <<>>
            /\ muxChan' = Tail(muxChan)
            /\ tGot' = [tGot EXCEPT ![Head(muxChan).conn] =
                            Append(@, [by |-> "AcceptConn", overlay |-> overlay,
                                       kind |-> Head(muxChan).kind])]
            /\ UNCHANGED connChan
       ELSE /\ connChan # <<>>
            /\ connChan' = Tail(connChan)
            /\ tGot' = [tGot EXCEPT ![Head(connChan).conn] =
                            Append(@, [by |-> "AcceptConn", overlay |-> overlay,
                                       kind |-> Head(connChan).kind])]
            /\ UNCHANGED muxChan
    /\ UNCHANGED <<tConn, tPc, tRw, tIn, tAuth, tRedir, tSent, packetChan,
                   userIPs, userLimit, userTraffic, tIO>>
    /\ UNCHANGED nonTrojanVars

\* Server.AcceptPacket
TrojanAcceptPacket ==
    /\ packetChan # <<>>
    /\ packetChan' = Tail(packetChan)
    /\ tGot' = [tGot EXCEPT ![Head(packetChan).conn] =
                    Append(@, [by |-> "AcceptPacket", overlay |-> "",
                               kind |-> Head(packetChan).kind])]
    /\ UNCHANGED <<tConn, tPc, tRw, tIn, tAuth, tRedir, tSent, connChan,
                   muxChan, userIPs, userLimit, userTraffic, tIO>>
    /\ UNCHANGED nonTrojanVars

\* sizes of the buffers callers pass to Read and Write
ReadSizes == {2}
WriteSizes == {2}

IOCalls == LET RECURSIVE Sum(_)
               Sum(S) == IF S = {} THEN 0
                         ELSE LET c == CHOOSE x \in S : TRUE
                              IN  tIO[c].calls + Sum(S \ {c})
           IN  Sum(Conns)

\* a Read that counts its bytes as sent
InboundReadAsSent(ic, traffic, r) ==
    [ic |-> [ic EXCEPT !.sent = @ + Len(r.data)],
     traffic |-> AddTraffic(traffic, Len(r.data), 0),
     call |-> <<Len(r.data), 0>>]

\* InboundConn.Read(p), r being what c.Conn.Read(p) returned: the counter,
\* the user's totals, the AddTraffic call
InboundRead(ic, traffic, r) ==
    [ic |-> [ic EXCEPT !.recv = @ + Len(r.data)],
     traffic |-> AddTraffic(traffic, 0, Len(r.data)),
     call |-> <<0, Len(r.data)>>]

\* InboundConn.Write(p), n being what c.Conn.Write(p) returned
InboundWrite(ic, traffic, n) ==
    [ic |-> [ic EXCEPT !.sent = @ + n],
     traffic |-> AddTraffic(traffic, n, 0),
     call |-> <<n, 0>>]

\* a Close that releases the IP of the user's name
InboundCloseByUser(ic, ips) == [delIP |-> ic.user, ips |-> DelIP(ips, ic.user)]

\* InboundConn.Close(): the DelIP call and the close of c.Conn
InboundClose(ic, ips) == [delIP |-> ic.ip, ips |-> DelIP(ips, ic.ip)]

\* a Read on a connection an upper layer holds; a closed connection reads
\* nothing
TrojanRead(c) ==
    /\ tGot[c] # <<>>
    /\ IOCalls < MaxIO
    /\ \E n \in ReadSizes :
         LET r == IF tConn[c].closed
                  THEN [rc |-> tRw[c], data |-> <<>>, err |-> TRUE]
                  ELSE RewindRead(tRw[c], n, n)
             x == InboundRead(tIn[c], userTraffic[tIn[c].user], r)
         IN  /\ tRw' = [tRw EXCEPT ![c] = r.rc]
             /\ tIn' = [tIn EXCEPT ![c] = x.ic]
             /\ userTraffic' = [userTraffic EXCEPT ![tIn[c].user] = x.traffic]
             /\ tIO' = [tIO EXCEPT ![c].read = @ + Len(tRw[c].raw) - Len(r.rc.raw),
                                   ![c].calls = @ + 1,
                                   ![c].last = x.call]
    /\ UNCHANGED <<tConn, tPc, tAuth, tRedir, tSent, tGot, connChan, muxChan,
                   packetChan, userIPs, userLimit>>
    /\ UNCHANGED nonTrojanVars

\* a Write on a connection an upper layer holds: the connection below takes
\* n of the bytes, none when closed
TrojanWrite(c) ==
    /\ tGot[c] # <<>>
    /\ IOCalls < MaxIO
    /\ \E len \in WriteSizes :
       \E n \in IF tConn[c].closed THEN {0} ELSE {len - 1, len} :
         LET x == InboundWrite(tIn[c], userTraffic[tIn[c].user], n)
         IN  /\ tIn' = [tIn EXCEPT ![c] = x.ic]
             /\ userTraffic' = [userTraffic EXCEPT ![tIn[c].user] = x.traffic]
             /\ tIO' = [tIO EXCEPT ![c].written = @ + n,
                                   ![c].calls = @ + 1,
                                   ![c].last = x.call]
    /\ UNCHANGED <<tConn, tPc, tRw, tAuth, tRedir, tSent, tGot, connChan,
                   muxChan, packetChan, userIPs, userLimit>>
    /\ UNCHANGED nonTrojanVars

\* the upper layer closes a connection it holds
TrojanClose(c) ==
    /\ tGot[c] # <<>>
    /\ tIO[c].closes = 0
    /\ LET x == InboundClose(tIn[c], userIPs[tIn[c].user])
       IN  /\ userIPs' = [userIPs EXCEPT ![tIn[c].user] = x.ips]
           /\ tIO' = [tIO EXCEPT ![c].delIP = Append(@, x.delIP),
                                 ![c].closes = @ + 1]
    /\ tConn' = [tConn EXCEPT ![c].closed = TRUE]
    /\ UNCHANGED <<tPc, tRw, tIn, tAuth, tRedir, tSent, tGot, connChan,
                   muxChan, packetChan, userLimit, userTraffic>>
    /\ UNCHANGED nonTrojanVars

----------------------------------------------------------------------------
(* Text *)

HasPrefix(s, p) == Len(s) >= Len(p) /\ SubSeq(s, 1, Len(p)) = p

HasSuffix(s, p) == Len(s) >= Len(p) /\ SubSeq(s, Len(s) - Len(p) + 1, Len(s)) = p

\* strings.Contains(s, p)
Contains(s, p) ==
    \E i \in 0..(Len(s) - Len(p)) : SubSeq(s, i + 1, i + Len(p)) = p

\* the index of the first occurrence of p in s at or after from, 0 for none
IndexFrom(s, p, from) ==
    LET I == {i \in from..(Len(s) - Len(p) + 1) : SubSeq(s, i, i + Len(p) - 1) = p}
    IN  IF I = {} THEN 0 ELSE CHOOSE i \in I : \A k \in I : i <= k

\* "first record does not look like a TLS handshake"
NotTLSPhrase ==
    <<102, 105, 114, 115, 116, 32, 114, 101, 99, 111, 114, 100, 32, 100,
    111, 101, 115, 32, 110, 111, 116, 32, 108, 111, 111, 107, 32, 108, 105,
    107, 101, 32, 97, 32, 84, 76, 83, 32, 104, 97, 110, 100, 115, 104, 97,
    107, 101>>

\* "tls: first record does not look like a TLS handshake"
ErrNotTLS ==
    <<116, 108, 115, 58, 32, 102, 105, 114, 115, 116, 32, 114, 101, 99,
    111, 114, 100, 32, 100, 111, 101, 115, 32, 110, 111, 116, 32, 108, 111,
    111, 107, 32, 108, 105, 107, 101, 32, 97, 32, 84, 76, 83, 32, 104, 97,
    110, 100, 115, 104, 97, 107, 101>>

\* "tls: client offered only unsupported versions"
ErrUnsupportedVersions ==
    <<116, 108, 115, 58, 32, 99, 108, 105, 101, 110, 116, 32, 111, 102,
    102, 101, 114, 101, 100, 32, 111, 110, 108, 121, 32, 117, 110, 115,
    117, 112, 112, 111, 114, 116, 101, 100, 32, 118, 101, 114, 115, 105,
    111, 110, 115>>

\* "EOF"
ErrEOF ==
    <<69, 79, 70>>

\* "sni mismatched: "
SNIMismatched ==
    <<115, 110, 105, 32, 109, 105, 115, 109, 97, 116, 99, 104, 101, 100,
    58, 32>>

\* ", expected: "
SNIExpected ==
    <<44, 32, 101, 120, 112, 101, 99, 116, 101, 100, 58, 32>>

\* "*."
WildcardPrefix ==
    <<42, 46>>

\* "."
Dot ==
    <<46>>

\* " "
Space ==
    <<32>>

\* "b.io"
NameB ==
    <<98, 46, 105, 111>>

\* "x.a.io"
NameXA ==
    <<120, 46, 97, 46, 105, 111>>

\* "*.a.io"
WildcardA ==
    <<42, 46, 97, 46, 105, 111>>

\* "GET / HTTP/1.0\r\n\r\n"
HTTPProbe ==
    <<71, 69, 84, 32, 47, 32, 72, 84, 84, 80, 47, 49, 46, 48, 13, 10, 13,
    10>>

\* "GET /ws HTTP/1.1\r\nUpgrade: websocket\r\n\r\n"
HTTPUpgrade ==
    <<71, 69, 84, 32, 47, 119, 115, 32, 72, 84, 84, 80, 47, 49, 46, 49, 13,
    10, 85, 112, 103, 114, 97, 100, 101, 58, 32, 119, 101, 98, 115, 111,
    99, 107, 101, 116, 13, 10, 13, 10>>

\* "HTTP/1.0"
HTTP10 ==
    <<72, 84, 84, 80, 47, 49, 46, 48>>

\* "HTTP/1.1"
HTTP11 ==
    <<72, 84, 84, 80, 47, 49, 46, 49>>

\* "HTTP/1.1 400 Bad Request\r\n\r\n"
PlainResponse ==
    <<72, 84, 84, 80, 47, 49, 46, 49, 32, 52, 48, 48, 32, 66, 97, 100, 32,
    82, 101, 113, 117, 101, 115, 116, 13, 10, 13, 10>>

\* "a stream that is no HTTP request"
TrojanStream ==
    <<97, 97, 97, 97, 13, 10, 1, 3, 4, 97, 46, 105, 111, 1, 187, 13, 10,
    71, 69, 84>>

\* a TLS record header of a ClientHello: handshake(22), version 3.1
ClientHelloRecord == <<22, 3, 1, 0, 4, 1, 0, 0, 0>>

----------------------------------------------------------------------------
(* The TLS server *)

\* handshakeRewindConn.SetBufferSize(2048)
HandshakeBufferSize == 2048

\* rewindConn.SetBufferSize(1024)
HTTPBufferSize == 1024

\* the size of bufio.NewReader's buffer
BufioSize == 4096

NilAddress == "<nil>"

NilBytes == [isNil |-> TRUE, bytes |-> <<>>]

Bytes(b) == [isNil |-> FALSE, bytes |-> b]

isDomainNameMatched(pattern, domainName) ==
    IF HasPrefix(pattern, WildcardPrefix)
    THEN /\ HasSuffix(domainName, Drop(pattern, 2))
         /\ Len(domainName) - Len(Drop(pattern, 2)) - 1 > 0
         /\ ~Contains(Take(domainName,
                           Len(domainName) - Len(Drop(pattern, 2)) - 1), Dot)
    ELSE pattern = domainName

\* the leaf of the loaded key pair: its Subject.CommonName and DNSNames
KeyPair == [CommonName |-> SomeName, DNSNames |-> <<WildcardA>>]

\* the name the hello is matched against first: the certificate's common
\* name, or the configured sni when there is one
ExpectedSNI(s) == IF s.sni # <<>> THEN s.sni ELSE s.keyPair.CommonName

\* a GetCertificate that looks at no alternative name of the certificate
GetCertificateNoSAN(s, ServerName) ==
    IF s.verifySNI /\ ~isDomainNameMatched(ExpectedSNI(s), ServerName)
    THEN SNIMismatched \o ServerName \o SNIExpected \o s.sni
    ELSE <<>>

\* tls.Config.GetCertificate of the accept loop, on hello.ServerName:
\* the error's message, <<>> for none
GetCertificate(s, ServerName) ==
    IF /\ s.verifySNI
       /\ ~ \/ isDomainNameMatched(ExpectedSNI(s), ServerName)
            \/ \E i \in 1..Len(s.keyPair.DNSNames) :
                  isDomainNameMatched(s.keyPair.DNSNames[i], ServerName)
    THEN SNIMismatched \o ServerName \o SNIExpected \o s.sni
    ELSE <<>>

\* crypto/tls: the first record is a handshake or alert record of a
\* plausible version
LooksLikeTLS(raw) ==
    /\ Len(raw) >= 5
    /\ raw[1] \in {21, 22}
    /\ raw[2] * 256 + raw[3] < 4096

\* tlsConn.Handshake() over rc for a client whose ClientHello carries
\* hello.versionOK and hello.ServerName: [rc, err], err the error's message
\* and <<>> for success.  The handshake's reads go through rc.
HandshakeOutcome(s, r, hello) ==
    [rc |-> r.rc,
     err |-> IF r.err THEN ErrEOF
             ELSE IF ~LooksLikeTLS(r.data) THEN ErrNotTLS
             ELSE IF ~hello.versionOK THEN ErrUnsupportedVersions
             ELSE GetCertificate(s, hello.ServerName)]

Handshake(s, rc, hello) ==
    HandshakeOutcome(s, RewindRead(rc, HandshakeBufferSize, Len(rc.raw)), hello)

\* the request line "method SP uri SP proto" of http.ReadRequest
RequestLineOK(line, sp1) ==
    /\ sp1 > 1
    /\ IndexFrom(line, Space, sp1 + 1) > sp1 + 1
    /\ Drop(line, IndexFrom(line, Space, sp1 + 1)) \in {HTTP10, HTTP11}

\* http.ReadRequest on the bytes the reader holds: TRUE when they begin with
\* a request line and a header block ended by an empty line
HeadOK(data, eol) ==
    /\ eol > 1
    /\ RequestLineOK(Take(data, eol - 1), IndexFrom(Take(data, eol - 1), Space, 1))
    /\ IndexFrom(data, CRLF \o CRLF, eol) > 0

\* http.ReadRequest(bufio.NewReader(rc)): [rc, err]
ReadRequestOutcome(r) ==
    [rc |-> r.rc, err |-> r.err \/ ~HeadOK(r.data, IndexFrom(r.data, CRLF, 1))]

ReadRequest(rc) == ReadRequestOutcome(RewindRead(rc, BufioSize, Len(rc.raw)))

FallbackAddr == "127.0.0.1:80"

\* the part of the configuration NewServer reads
TLSConfigs ==
    { [FallbackPort |-> 80, HTTPResponseFileName |-> "", VerifyHostName |-> TRUE, SNI |-> SomeName],
      [FallbackPort |-> 0, HTTPResponseFileName |-> "resp.http", VerifyHostName |-> TRUE, SNI |-> <<>>],
      [FallbackPort |-> 0, HTTPResponseFileName |-> "", VerifyHostName |-> FALSE, SNI |-> SomeName],
      [FallbackPort |-> 80, HTTPResponseFileName |-> "", VerifyHostName |-> TRUE, SNI |-> NameB] }

\* the fields NewServer sets from the configuration
NewServer(cfg) ==
    [fallbackAddress |-> IF cfg.FallbackPort # 0 THEN FallbackAddr ELSE NilAddress,
     httpResp |-> IF cfg.FallbackPort = 0 /\ cfg.HTTPResponseFileName # ""
                  THEN Bytes(PlainResponse) ELSE NilBytes,
     verifySNI |-> cfg.VerifyHostName,
     sni |-> cfg.SNI,
     keyPair |-> KeyPair]

NoClient == [raw |-> <<>>, hello |-> [versionOK |-> FALSE, ServerName |-> <<>>],
             plain |-> <<>>]

Client(raw, versionOK, ServerName, plain) ==
    [raw |-> raw, hello |-> [versionOK |-> versionOK, ServerName |-> ServerName],
     plain |-> plain]

\* the clients of the model: a plain HTTP probe, a client that sends nothing,
\* a TLS client of an unsupported version, TLS clients with a Trojan stream
\* and with an HTTP request, and TLS clients that name another server
TLSClients ==
    { Client(HTTPProbe, FALSE, <<>>, <<>>),
      Client(<<>>, FALSE, <<>>, <<>>),
      Client(ClientHelloRecord, FALSE, SomeName, <<>>),
      Client(ClientHelloRecord, TRUE, SomeName, TrojanStream),
      Client(ClientHelloRecord, TRUE, NameXA, HTTPUpgrade),
      Client(ClientHelloRecord, TRUE, NameB, HTTPUpgrade),
      Client(ClientHelloRecord, TRUE, NotTLSPhrase, TrojanStream) }

TLSInit(cfgs) ==
    /\ sPc = [c \in Conns |-> "none"]
    /\ sClient = [c \in Conns |-> NoClient]
    /\ sHs = [c \in Conns |-> NewRewindConn(<<>>)]
    /\ sRw = [c \in Conns |-> NewRewindConn(<<>>)]
    /\ sErr = [c \in Conns |-> <<>>]
    /\ sLog = [c \in Conns |-> <<>>]
    /\ sGot = [c \in Conns |-> <<>>]
    /\ tlsConnChan = <<>>
    /\ wsChan = <<>>
    /\ nextHTTP = 0
    /\ \E cfg \in cfgs : tlsServer = NewServer(cfg)

\* the accept loop takes connection c from the underlay and starts its
\* handler
TLSAccept(c, clients) ==
    /\ ~sDone
    /\ sPc[c] = "none"
    /\ \A d \in Conns : d < c => sPc[d] # "none"
    /\ \E cl \in clients :
          /\ sClient' = [sClient EXCEPT ![c] = cl]
          /\ sHs' = [sHs EXCEPT ![c] =
                        SetBufferSize(NewRewindConn(cl.raw), HandshakeBufferSize)]
    /\ sPc' = [sPc EXCEPT ![c] = "handshake"]
    /\ UNCHANGED <<sRw, sErr, sLog, sGot, tlsConnChan, wsChan, nextHTTP, tlsServer>>
    /\ UNCHANGED nonTLSVars

\* a handler that falls back without rewinding
HandshakeFailedNoRewind(s, h, err) ==
    IF Contains(err, NotTLSPhrase)
    THEN [rc |-> h,
          log |-> IF s.fallbackAddress # NilAddress
                  THEN <<[op |-> "Redirect", conn |-> "handshakeRewindConn",
                          to |-> s.fallbackAddress, idx |-> h.idx]>>
                  ELSE IF ~s.httpResp.isNil
                  THEN <<[op |-> "Write", conn |-> "handshakeRewindConn",
                          bytes |-> s.httpResp.bytes],
                         [op |-> "Close", conn |-> "handshakeRewindConn"]>>
                  ELSE <<[op |-> "Close", conn |-> "handshakeRewindConn"]>>]
    ELSE [rc |-> h, log |-> <<[op |-> "Close", conn |-> "tlsConn"]>>]

\* what the handler does with a connection whose handshake failed with err
\* on h, the handshakeRewindConn after StopBuffering
HandshakeFailed(s, h, err) ==
    IF Contains(err, NotTLSPhrase)
    THEN [rc |-> Rewind(h),
          log |-> <<[op |-> "Rewind", conn |-> "handshakeRewindConn"]>> \o
                  (IF s.fallbackAddress # NilAddress
                   THEN <<[op |-> "Redirect", conn |-> "handshakeRewindConn",
                           to |-> s.fallbackAddress, idx |-> Rewind(h).idx]>>
                   ELSE IF ~s.httpResp.isNil
                   THEN <<[op |-> "Write", conn |-> "handshakeRewindConn",
                           bytes |-> s.httpResp.bytes],
                          [op |-> "Close", conn |-> "handshakeRewindConn"]>>
                   ELSE <<[op |-> "Close", conn |-> "handshakeRewindConn"]>>)]
    ELSE [rc |-> h, log |-> <<[op |-> "Close", conn |-> "tlsConn"]>>]

\* the handler of c performs the handshake and, when it fails, disposes of
\* the connection
TLSHandshakeStep(c, hs) ==
    /\ sErr' = [sErr EXCEPT ![c] = hs.err]
    /\ IF hs.err # <<>>
       THEN /\ sHs' = [sHs EXCEPT ![c] =
                          HandshakeFailed(tlsServer, StopBuffering(hs.rc), hs.err).rc]
            /\ sLog' = [sLog EXCEPT ![c] =
                          HandshakeFailed(tlsServer, StopBuffering(hs.rc), hs.err).log]
            /\ sPc' = [sPc EXCEPT ![c] = "done"]
            /\ UNCHANGED sRw
       ELSE /\ sHs' = [sHs EXCEPT ![c] = StopBuffering(hs.rc)]
            /\ sRw' = [sRw EXCEPT ![c] =
                          SetBufferSize(NewRewindConn(sClient[c].plain), HTTPBufferSize)]
            /\ sPc' = [sPc EXCEPT ![c] = "http"]
            /\ UNCHANGED sLog

TLSHandshake(c) ==
    /\ sPc[c] = "handshake"
    /\ TLSHandshakeStep(c, Handshake(tlsServer, sHs[c], sClient[c].hello))
    /\ UNCHANGED <<sClient, sGot, tlsConnChan, wsChan, nextHTTP, tlsServer>>
    /\ UNCHANGED nonTLSVars

\* the record the handler leaves when it hands rewindConn on
Handed(op, rc) == [op |-> op, conn |-> "rewindConn", idx |-> rc.idx,
                   buffering |-> rc.buffering]

\* the handler of c peeks at the decrypted stream, rewinds, and hands the
\* connection to the Trojan channel, the WebSocket channel or the redirector
TLSDemuxStep(c, rr, rc) ==
    /\ sRw' = [sRw EXCEPT ![c] = rc]
    /\ IF rr.err
       THEN /\ Len(tlsConnChan) < ChanCap
            /\ tlsConnChan' = Append(tlsConnChan, c)
            /\ sLog' = [sLog EXCEPT ![c] = @ \o <<Handed("connChan", rc)>>]
            /\ UNCHANGED wsChan
       ELSE IF nextHTTP # 1
       THEN /\ sLog' = [sLog EXCEPT ![c] = @ \o
                          <<[op |-> "Redirect", conn |-> "rewindConn",
                             to |-> tlsServer.fallbackAddress, idx |-> rc.idx]>>]
            /\ UNCHANGED <<tlsConnChan, wsChan>>
       ELSE /\ Len(wsChan) < ChanCap
            /\ wsChan' = Append(wsChan, c)
            /\ sLog' = [sLog EXCEPT ![c] = @ \o <<Handed("wsChan", rc)>>]
            /\ UNCHANGED tlsConnChan
    /\ sPc' = [sPc EXCEPT ![c] = "done"]

\* a handler that hands the connection on where the parser left it
TLSDemuxNoRewind(c, rr) == TLSDemuxStep(c, rr, StopBuffering(rr.rc))

TLSDemuxRead(c, rr) == TLSDemuxStep(c, rr, StopBuffering(Rewind(rr.rc)))

TLSDemux(c) ==
    /\ sPc[c] = "http"
    /\ TLSDemuxRead(c, ReadRequest(sRw[c]))
    /\ UNCHANGED <<sClient, sHs, sErr, sGot, nextHTTP, tlsServer>>
    /\ UNCHANGED nonTLSVars

\* AcceptConn(overlay) of a WebSocket overlay announces itself before it
\* waits on wsChan
TLSAcceptConnWebSocket ==
    /\ nextHTTP' = 1
    /\ UNCHANGED <<sPc, sClient, sHs, sRw, sErr, sLog, sGot, tlsConnChan, wsChan, tlsServer>>
    /\ UNCHANGED nonTLSVars

\* AcceptConn(overlay) returns a connection: from wsChan to a WebSocket
\* overlay, which has announced itself, from connChan to any other overlay
TLSAcceptConn(overlay) ==
    /\ IF overlay = "WEBSOCKET"
       THEN /\ nextHTTP = 1
            /\ wsChan # <<>>
            /\ sGot' = [sGot EXCEPT ![Head(wsChan)] =
                           Append(@, [overlay |-> overlay, chan |-> "wsChan"])]
            /\ wsChan' = Tail(wsChan)
            /\ UNCHANGED tlsConnChan
       ELSE /\ tlsConnChan # <<>>
            /\ sGot' = [sGot EXCEPT ![Head(tlsConnChan)] =
                           Append(@, [overlay |-> overlay, chan |-> "connChan"])]
            /\ tlsConnChan' = Tail(tlsConnChan)
            /\ UNCHANGED wsChan
    /\ UNCHANGED <<sPc, sClient, sHs, sRw, sErr, sLog, nextHTTP, tlsServer>>
    /\ UNCHANGED nonTLSVars

----------------------------------------------------------------------------
(* The WebSocket server *)

\* the capacity of the rewind buffer of AcceptConn
WSBufferSize == 512

\* time.Second, with the millisecond as the unit of time
Second == 1000

\* the values of rand.Intn(10)
TimeoutDraws == 0..9

\* a timeout of 6 to 15 seconds
HandshakeTimeoutWide(r) == Second * (r + 6)

\* time.Second * time.Duration(r + 5), for the draw r of NewServer
HandshakeTimeout(r) == Second * (r + 5)

\* "/ws"
WSPath ==
    <<47, 119, 115>>

\* "a b"
BadHost ==
    <<97, 32, 98>>

\* "127.0.0.1"
LocalHost ==
    <<49, 50, 55, 46, 48, 46, 48, 46, 49>>

\* "wss://"
WSScheme ==
    <<119, 115, 115, 58, 47, 47>>

\* "\r\nupgrade:"
UpgradeKey ==
    <<13, 10, 117, 112, 103, 114, 97, 100, 101, 58>>

\* "websocket"
WebsocketToken ==
    <<119, 101, 98, 115, 111, 99, 107, 101, 116>>

\* "GET /ws HTTP/1.1\r\nUPGRADE:  WebSocket \r\n\r\n"
HTTPUpgradeMixed ==
    <<71, 69, 84, 32, 47, 119, 115, 32, 72, 84, 84, 80, 47, 49, 46, 49, 13,
    10, 85, 80, 71, 82, 65, 68, 69, 58, 32, 32, 87, 101, 98, 83, 111, 99,
    107, 101, 116, 32, 13, 10, 13, 10>>

\* "GET /ws?ed=1 HTTP/1.1\r\nHost: a.io\r\nUpgrade: websocket\r\n\r\n"
HTTPUpgradeQuery ==
    <<71, 69, 84, 32, 47, 119, 115, 63, 101, 100, 61, 49, 32, 72, 84, 84,
    80, 47, 49, 46, 49, 13, 10, 72, 111, 115, 116, 58, 32, 97, 46, 105,
    111, 13, 10, 85, 112, 103, 114, 97, 100, 101, 58, 32, 119, 101, 98,
    115, 111, 99, 107, 101, 116, 13, 10, 13, 10>>

\* "GET /wsx HTTP/1.1\r\nUpgrade: websocket\r\n\r\n"
HTTPUpgradeOtherPath ==
    <<71, 69, 84, 32, 47, 119, 115, 120, 32, 72, 84, 84, 80, 47, 49, 46,
    49, 13, 10, 85, 112, 103, 114, 97, 100, 101, 58, 32, 119, 101, 98, 115,
    111, 99, 107, 101, 116, 13, 10, 13, 10>>

\* "GET /ws HTTP/1.1\r\nUpgrade: h2c\r\n\r\n"
HTTPUpgradeH2C ==
    <<71, 69, 84, 32, 47, 119, 115, 32, 72, 84, 84, 80, 47, 49, 46, 49, 13,
    10, 85, 112, 103, 114, 97, 100, 101, 58, 32, 104, 50, 99, 13, 10, 13,
    10>>

\* "GET /ws HTTP/1.1\r\nHost: a.io\r\n\r\nUpgrade: websocket\r\n\r\n"
HTTPUpgradeInBody ==
    <<71, 69, 84, 32, 47, 119, 115, 32, 72, 84, 84, 80, 47, 49, 46, 49, 13,
    10, 72, 111, 115, 116, 58, 32, 97, 46, 105, 111, 13, 10, 13, 10, 85,
    112, 103, 114, 97, 100, 101, 58, 32, 119, 101, 98, 115, 111, 99, 107,
    101, 116, 13, 10, 13, 10>>

\* 600 bytes with no line end, more than the rewind buffer holds
LongStream == Rep(600, 97)

QuestionMark == <<63>>

\* a comparison that keeps the case
SameCase(str) == str

\* strings.ToLower on ASCII
ToLower(str) ==
    [i \in 1..Len(str) |-> IF str[i] >= 65 /\ str[i] <= 90 THEN str[i] + 32 ELSE str[i]]

\* strings.TrimSpace on a header value
RECURSIVE TrimSpace(_)
TrimSpace(str) ==
    IF str = <<>> THEN str
    ELSE IF str[1] = 32 THEN TrimSpace(Drop(str, 1))
    ELSE IF str[Len(str)] = 32 THEN TrimSpace(Take(str, Len(str) - 1))
    ELSE str

\* the head of a request: the request line and the header lines, with the
\* line end of the last of them
RequestHead(data) == Take(data, IndexFrom(data, CRLF \o CRLF, 1) + 1)

\* req.URL.Path of a request line "method SP uri SP proto": the uri without
\* its query
URLPathOf(uri) ==
    IF IndexFrom(uri, QuestionMark, 1) > 0
    THEN Take(uri, IndexFrom(uri, QuestionMark, 1) - 1)
    ELSE uri

RequestURI(line, sp1) == SubSeq(line, sp1 + 1, IndexFrom(line, Space, sp1 + 1) - 1)

URLPath(data) ==
    URLPathOf(RequestURI(Take(data, IndexFrom(data, CRLF, 1) - 1),
                         IndexFrom(data, Space, 1)))

\* the value of the header line of head that begins at from, 0 for none
HeaderValueAt(head, from, keyLen) ==
    IF from = 0 THEN <<>>
    ELSE TrimSpace(SubSeq(head, from + keyLen,
                          IndexFrom(head, CRLF, from + keyLen) - 1))

\* req.Header.Get("Upgrade"): header names are compared without case
HeaderGetUpgrade(data) ==
    HeaderValueAt(RequestHead(data),
                  IndexFrom(ToLower(RequestHead(data)), UpgradeKey, 1),
                  Len(UpgradeKey))

\* the part of the configuration NewServer reads
WSConfigs ==
    { [Enabled |-> TRUE, Path |-> WSPath, Host |-> SomeName,
       RemoteHost |-> <<>>, RemotePort |-> 0],
      [Enabled |-> FALSE, Path |-> <<>>, Host |-> SomeName,
       RemoteHost |-> LocalHost, RemotePort |-> 8080],
      [Enabled |-> TRUE, Path |-> WSPath, Host |-> BadHost,
       RemoteHost |-> LocalHost, RemotePort |-> 8080],
      [Enabled |-> TRUE, Path |-> Drop(WSPath, 1), Host |-> SomeName,
       RemoteHost |-> LocalHost, RemotePort |-> 8080] }

\* NewServer refuses an enabled configuration whose path has no leading "/"
WSConfigOK(cfg) == cfg.Enabled => HasPrefix(cfg.Path, Take(WSPath, 1))

\* the fields NewServer sets, for the draw r of the timeout
WSNewServer(cfg, r) ==
    [enabled |-> cfg.Enabled,
     hostname |-> cfg.Host,
     path |-> cfg.Path,
     timeout |-> HandshakeTimeout(r),
     redirAddr |-> [host |-> IF cfg.RemoteHost = <<>> THEN cfg.Host ELSE cfg.RemoteHost,
                    port |-> IF cfg.RemotePort = 0 THEN 80 ELSE cfg.RemotePort],
     done |-> FALSE]

\* websocket.NewConfig(url, origin) parses both as URLs
NewConfigOK(s) == ~Contains(WSScheme \o s.hostname \o s.path, Space)

\* a client: the bytes it sends, and whether its request carries the key
\* and version headers the websocket handshake of ServeHTTP asks for
WSClient(raw, hybi) == [raw |-> raw, hybi |-> hybi]

NoWSClient == WSClient(<<>>, FALSE)

WSClients ==
    { WSClient(HTTPUpgrade, TRUE),
      WSClient(HTTPUpgrade, FALSE),
      WSClient(HTTPUpgradeMixed, TRUE),
      WSClient(HTTPUpgradeQuery, TRUE),
      WSClient(HTTPUpgradeOtherPath, TRUE),
      WSClient(HTTPUpgradeH2C, TRUE),
      WSClient(HTTPUpgradeInBody, TRUE),
      WSClient(HTTPProbe, FALSE),
      WSClient(TrojanStream, FALSE),
      WSClient(LongStream, FALSE) }

WSInit(cfgs, draws) ==
    /\ \E cfg \in cfgs, r \in draws :
          WSConfigOK(cfg) /\ wsServer = WSNewServer(cfg, r)
    /\ wPc = [c \in Conns |-> "none"]
    /\ wClient = [c \in Conns |-> NoWSClient]
    /\ wRw = [c \in Conns |-> NewRewindConn(<<>>)]
    /\ wLog = [c \in Conns |-> <<>>]
    /\ wRet = [c \in Conns |-> "none"]
    /\ wsConn = [c \in Conns |-> FALSE]
    /\ wCtx = [c \in Conns |-> "none"]
    /\ wGo = [c \in Conns |-> "none"]
    /\ wFired = [c \in Conns |-> "no"]

\* the Redirection of conn to the fallback address
WSRedirect(s, conn, rc) ==
    [op |-> "Redirect", conn |-> conn, to |-> s.redirAddr, idx |-> rc.idx,
     buffering |-> rc.buffering, pending |-> Pending(rc)]

\* an AcceptConn that treats the connections of a disabled server as those
\* of an enabled one
WSAcceptOutcomeNoSwitch(s, raw, r) ==
    IF r.err \/ ~HeadOK(r.data, IndexFrom(r.data, CRLF, 1))
    THEN [rc |-> StopBuffering(Rewind(r.rc)),
          log |-> <<WSRedirect(s, "rewindConn", StopBuffering(Rewind(r.rc)))>>,
          ret |-> "not a valid http request", started |-> FALSE]
    ELSE IF \/ ToLower(HeaderGetUpgrade(r.data)) # WebsocketToken
            \/ URLPath(r.data) # s.path
    THEN [rc |-> StopBuffering(Rewind(r.rc)),
          log |-> <<WSRedirect(s, "rewindConn", StopBuffering(Rewind(r.rc)))>>,
          ret |-> "not a valid websocket handshake request", started |-> FALSE]
    ELSE IF ~NewConfigOK(s)
    THEN [rc |-> StopBuffering(r.rc), log |-> <<>>,
          ret |-> "failed to create websocket config", started |-> FALSE]
    ELSE [rc |-> r.rc, log |-> <<>>, ret |-> "none", started |-> TRUE]

\* AcceptConn up to the start of the ServeHTTP task, for the request read
\* through rc: [rc, log, ret, started]
WSAcceptOutcome(s, raw, r) ==
    IF ~s.enabled
    THEN [rc |-> NewRewindConn(raw),
          log |-> <<WSRedirect(s, "conn", NewRewindConn(raw))>>,
          ret |-> "websocket is disabled", started |-> FALSE]
    ELSE IF r.err \/ ~HeadOK(r.data, IndexFrom(r.data, CRLF, 1))
    THEN [rc |-> StopBuffering(Rewind(r.rc)),
          log |-> <<WSRedirect(s, "rewindConn", StopBuffering(Rewind(r.rc)))>>,
          ret |-> "not a valid http request", started |-> FALSE]
    ELSE IF \/ ToLower(HeaderGetUpgrade(r.data)) # WebsocketToken
            \/ URLPath(r.data) # s.path
    THEN [rc |-> StopBuffering(Rewind(r.rc)),
          log |-> <<WSRedirect(s, "rewindConn", StopBuffering(Rewind(r.rc)))>>,
          ret |-> "not a valid websocket handshake request", started |-> FALSE]
    ELSE IF ~NewConfigOK(s)
    THEN [rc |-> StopBuffering(r.rc), log |-> <<>>,
          ret |-> "failed to create websocket config", started |-> FALSE]
    ELSE [rc |-> r.rc, log |-> <<>>, ret |-> "none", started |-> TRUE]

WSAcceptStep(c, cl, out) ==
    /\ wClient' = [wClient EXCEPT ![c] = cl]
    /\ wRw' = [wRw EXCEPT ![c] = out.rc]
    /\ wLog' = [wLog EXCEPT ![c] = out.log]
    /\ wRet' = [wRet EXCEPT ![c] = out.ret]
    /\ wPc' = [wPc EXCEPT ![c] = IF out.started THEN "select" ELSE "returned"]
    /\ wCtx' = [wCtx EXCEPT ![c] = IF out.started THEN "live" ELSE "none"]
    /\ wGo' = [wGo EXCEPT ![c] = IF out.started THEN "handshaking" ELSE "none"]

\* AcceptConn takes connection c from the underlay and either disposes of
\* it or starts the ServeHTTP task and waits in the select
WSAcceptConn(c, clients) ==
    /\ ~wsServer.done
    /\ wPc[c] = "none"
    /\ \A d \in Conns : d < c => wPc[d] = "returned"
    /\ \E cl \in clients :
          WSAcceptStep(c, cl,
              WSAcceptOutcome(wsServer, cl.raw,
                  RewindRead(SetBufferSize(NewRewindConn(cl.raw), WSBufferSize),
                             BufioSize, Len(cl.raw))))
    /\ UNCHANGED <<wsServer, wsConn, wFired>>
    /\ UNCHANGED nonWSVars

\* the ServeHTTP task of c finishes the websocket handshake: it calls the
\* Handler, or returns and closes the connection when the handshake fails
WSServeHTTP(c) ==
    /\ wGo[c] = "handshaking"
    /\ IF wClient[c].hybi
       THEN /\ wGo' = [wGo EXCEPT ![c] = "handler"]
            /\ UNCHANGED wLog
       ELSE /\ wGo' = [wGo EXCEPT ![c] = "returned"]
            /\ wLog' = [wLog EXCEPT ![c] = @ \o <<[op |-> "Close", conn |-> "conn"]>>]
    /\ UNCHANGED <<wsServer, wPc, wClient, wRw, wRet, wsConn, wCtx, wFired>>
    /\ UNCHANGED nonWSVars

\* the Handler of c stores the websocket and goes to the send on handshake
WSHandlerStore(c) ==
    /\ wGo[c] = "handler"
    /\ wsConn' = [wsConn EXCEPT ![c] = TRUE]
    /\ wGo' = [wGo EXCEPT ![c] = "sending"]
    /\ UNCHANGED <<wsServer, wPc, wClient, wRw, wLog, wRet, wCtx, wFired>>
    /\ UNCHANGED nonWSVars

\* the select of AcceptConn receives from handshake what the Handler sends
WSHandshakeDone(c) ==
    /\ wPc[c] = "select"
    /\ wGo[c] = "sending"
    /\ wPc' = [wPc EXCEPT ![c] = "check"]
    /\ wGo' = [wGo EXCEPT ![c] = "waiting"]
    /\ UNCHANGED <<wsServer, wClient, wRw, wLog, wRet, wsConn, wCtx, wFired>>
    /\ UNCHANGED nonWSVars

\* the select of AcceptConn takes the case of time.After(s.timeout)
WSTimeout(c) ==
    /\ wPc[c] = "select"
    /\ wPc' = [wPc EXCEPT ![c] = "check"]
    /\ wFired' = [wFired EXCEPT ![c] = wGo[c]]
    /\ UNCHANGED <<wsServer, wClient, wRw, wLog, wRet, wsConn, wCtx, wGo>>
    /\ UNCHANGED nonWSVars

\* the values the test wsConn == nil of AcceptConn can see: after the
\* receive from handshake the store of the Handler; after the timer, no
\* store when none was made, and either when one was made, for nothing
\* orders that store before the test
WSConnSeen(c) ==
    IF wFired[c] = "no" THEN {TRUE}
    ELSE IF wsConn[c] THEN {TRUE, FALSE}
    ELSE {FALSE}

\* AcceptConn tests wsConn and returns, stopping the buffering of rewindConn
WSCheck(c) ==
    /\ wPc[c] = "check"
    /\ \E seen \in WSConnSeen(c) :
          IF seen
          THEN /\ wRet' = [wRet EXCEPT ![c] = "InboundConn"]
               /\ UNCHANGED wCtx
          ELSE /\ wRet' = [wRet EXCEPT ![c] = "websocket failed to handshake"]
               /\ wCtx' = [wCtx EXCEPT ![c] = "cancelled"]
    /\ wPc' = [wPc EXCEPT ![c] = "returned"]
    /\ wRw' = [wRw EXCEPT ![c] = StopBuffering(@)]
    /\ UNCHANGED <<wsServer, wClient, wLog, wsConn, wGo, wFired>>
    /\ UNCHANGED nonWSVars

\* ctx of the attempt of c is done: it was cancelled, or the context of the
\* server it derives from was
WSCtxDone(c) == wCtx[c] = "cancelled" \/ (wCtx[c] = "live" /\ wsServer.done)

\* the Handler of c returns after <-ctx.Done(), and ServeHTTP closes the
\* connection
WSHandlerReturn(c) ==
    /\ wGo[c] = "waiting"
    /\ WSCtxDone(c)
    /\ wGo' = [wGo EXCEPT ![c] = "returned"]
    /\ wLog' = [wLog EXCEPT ![c] = @ \o <<[op |-> "Close", conn |-> "conn"]>>]
    /\ UNCHANGED <<wsServer, wPc, wClient, wRw, wRet, wsConn, wCtx, wFired>>
    /\ UNCHANGED nonWSVars

\* Close cancels the context of the server
WSClose ==
    /\ ~wsServer.done
    /\ wsServer' = [wsServer EXCEPT !.done = TRUE]
    /\ UNCHANGED <<wPc, wClient, wRw, wLog, wRet, wsConn, wCtx, wGo, wFired>>
    /\ UNCHANGED nonWSVars

----------------------------------------------------------------------------
(* The transport server *)

\* the capacity of the rewind buffer of the handler of the transport server
PlainBufferSize == 512

\* the overlays whose AcceptConn registers a plaintext HTTP upstream
HTTPOverlays == {"WEBSOCKET", "HTTP"}

TransportInit ==
    /\ trServer = [nextHTTP |-> FALSE, done |-> FALSE]
    /\ trLoop = "running"
    /\ pPc = [c \in Conns |-> "none"]
    /\ pClient = [c \in Conns |-> <<>>]
    /\ pRw = [c \in Conns |-> NewRewindConn(<<>>)]
    /\ pConn = [c \in Conns |-> "none"]
    /\ pDest = [c \in Conns |-> "none"]
    /\ pSaw = [c \in Conns |-> FALSE]
    /\ trConnChan = <<>>
    /\ trWsChan = <<>>
    /\ pGot = [c \in Conns |-> <<>>]
    /\ sDone = FALSE

\* the accept loop takes TCP connection c from the listener and starts its
\* handler
TransportAccept(c, clients) ==
    /\ trLoop = "running"
    /\ ~trServer.done
    /\ pPc[c] = "none"
    /\ \A d \in Conns : d < c => pPc[d] # "none"
    /\ \E raw \in clients : pClient' = [pClient EXCEPT ![c] = raw]
    /\ pPc' = [pPc EXCEPT ![c] = "handler"]
    /\ UNCHANGED <<trServer, trLoop, pRw, pConn, pDest, pSaw, trConnChan,
                   trWsChan, pGot>>
    /\ UNCHANGED nonTransportVars

\* Accept fails, as it does once the listener is closed, and the accept loop
\* returns
TransportAcceptError ==
    /\ trLoop = "running"
    /\ trLoop' = "returned"
    /\ UNCHANGED <<trServer, pPc, pClient, pRw, pConn, pDest, pSaw,
                   trConnChan, trWsChan, pGot>>
    /\ UNCHANGED nonTransportVars

\* a handler that hands the connection on as the peek left it
TransportPeekNoRewind(r) ==
    [rc |-> StopBuffering(r.rc),
     conn |-> "rewindConn",
     dest |-> IF r.err THEN "connChan" ELSE "wsChan"]

\* what the handler makes of a connection when nextHTTP is set, r being
\* the outcome of http.ReadRequest: the rewindConn, rewound and with
\* buffering stopped, for wsChan when the request parsed and for connChan
\* when it did not
TransportPeek(r) ==
    [rc |-> StopBuffering(Rewind(r.rc)),
     conn |-> "rewindConn",
     dest |-> IF r.err THEN "connChan" ELSE "wsChan"]

\* what the handler makes of a connection whose bytes are raw
TransportRoute(registered, raw) ==
    IF registered
    THEN TransportPeek(ReadRequest(SetBufferSize(NewRewindConn(raw), PlainBufferSize)))
    ELSE [rc |-> NewRewindConn(raw), conn |-> "tcpConn", dest |-> "connChan"]

\* the handler of c reads nextHTTP and, when it is set, peeks at the
\* request; it goes on to the send
TransportHandle(c) ==
    /\ pPc[c] = "handler"
    /\ pSaw' = [pSaw EXCEPT ![c] = trServer.nextHTTP]
    /\ pRw' = [pRw EXCEPT ![c] = TransportRoute(trServer.nextHTTP, pClient[c]).rc]
    /\ pConn' = [pConn EXCEPT ![c] = TransportRoute(trServer.nextHTTP, pClient[c]).conn]
    /\ pDest' = [pDest EXCEPT ![c] = TransportRoute(trServer.nextHTTP, pClient[c]).dest]
    /\ pPc' = [pPc EXCEPT ![c] = "send"]
    /\ UNCHANGED <<trServer, trLoop, pClient, trConnChan, trWsChan, pGot>>
    /\ UNCHANGED nonTransportVars

\* the send of the handler of c, which waits while the channel is full
TransportSend(c) ==
    /\ pPc[c] = "send"
    /\ IF pDest[c] = "wsChan"
       THEN /\ Len(trWsChan) < ChanCap
            /\ trWsChan' = Append(trWsChan, c)
            /\ UNCHANGED trConnChan
       ELSE /\ Len(trConnChan) < ChanCap
            /\ trConnChan' = Append(trConnChan, c)
            /\ UNCHANGED trWsChan
    /\ pPc' = [pPc EXCEPT ![c] = "sent"]
    /\ UNCHANGED <<trServer, trLoop, pClient, pRw, pConn, pDest, pSaw, pGot>>
    /\ UNCHANGED nonTransportVars

\* AcceptConn of a WebSocket or HTTP overlay sets nextHTTP before it waits
TransportAcceptConnHTTP ==
    /\ trServer' = [trServer EXCEPT !.nextHTTP = TRUE]
    /\ UNCHANGED <<trLoop, pPc, pClient, pRw, pConn, pDest, pSaw, trConnChan,
                   trWsChan, pGot>>
    /\ UNCHANGED nonTransportVars

\* AcceptConn(overlay) receives a connection: from wsChan for a WebSocket
\* or HTTP overlay, from connChan for any other
TransportAcceptConn(overlay) ==
    /\ IF overlay \in HTTPOverlays
       THEN /\ trServer.nextHTTP
            /\ trWsChan # <<>>
            /\ pGot' = [pGot EXCEPT ![Head(trWsChan)] = Append(@, overlay)]
            /\ trWsChan' = Tail(trWsChan)
            /\ UNCHANGED trConnChan
       ELSE /\ trConnChan # <<>>
            /\ pGot' = [pGot EXCEPT ![Head(trConnChan)] = Append(@, overlay)]
            /\ trConnChan' = Tail(trConnChan)
            /\ UNCHANGED trWsChan
    /\ UNCHANGED <<trServer, trLoop, pPc, pClient, pRw, pConn, pDest, pSaw>>
    /\ UNCHANGED nonTransportVars

\* a Close that also forgets the plaintext HTTP upstream
TransportCloseReset ==
    /\ ~trServer.done
    /\ trServer' = [nextHTTP |-> FALSE, done |-> TRUE]
    /\ UNCHANGED <<trLoop, pPc, pClient, pRw, pConn, pDest, pSaw, trConnChan,
                   trWsChan, pGot>>
    /\ UNCHANGED nonTransportVars

\* Close cancels the context and closes the listener
TransportClose ==
    /\ ~trServer.done
    /\ trServer' = [trServer EXCEPT !.done = TRUE]
    /\ UNCHANGED <<trLoop, pPc, pClient, pRw, pConn, pDest, pSaw, trConnChan,
                   trWsChan, pGot>>
    /\ UNCHANGED nonTransportVars

\* Close of the TLS server cancels its context and closes its underlay, the
\* transport server
TLSClose ==
    /\ ~sDone
    /\ sDone' = TRUE
    /\ trServer' = [trServer EXCEPT !.done = TRUE]
    /\ UNCHANGED <<trLoop, pPc, pClient, pRw, pConn, pDest, pSaw, trConnChan,
                   trWsChan, pGot>>
    /\ UNCHANGED <<trojanVars, tlsVars, matchVars, wsVars, linkVars, relayVars, keyPairVars, acceptPacketVars, optionVars, contextVars, loadVars, muxVars, treeVars>>

----------------------------------------------------------------------------
(* The key pair of the TLS server *)

\* the versions of the key file and of the certificate file; version 1 is
\* what NewServer loaded
FileVersions == {1, 2}

\* a key pair: a certificate with its Leaf, and the private key
Pair(key, cert) == [key |-> key, cert |-> cert, leaf |-> cert]

NoPair == Pair(0, 0)

\* loadKeyPair: the pair of the files as they are, or an error when the key
\* does not belong to the certificate
loadKeyPair(files) ==
    IF files.key = files.cert
    THEN [err |-> FALSE, keyPair |-> Pair(files.key, files.cert)]
    ELSE [err |-> TRUE, keyPair |-> NoPair]

\* the local variables of checkKeyPairLoop
LoopState(pc, keyBytes, certBytes, lastKeyBytes, lastCertBytes, keyPair) ==
    [pc |-> pc, keyBytes |-> keyBytes, certBytes |-> certBytes,
     lastKeyBytes |-> lastKeyBytes, lastCertBytes |-> lastCertBytes,
     keyPair |-> keyPair]

\* a GetCertificate call: where it is, the names it read from the Leaf, and
\* the certificate it returns
Lookup(pc, names, ret) == [pc |-> pc, names |-> names, ret |-> ret]

KeyPairInit(loops) ==
    /\ kFiles = [key |-> 1, cert |-> 1]
    /\ kSlot = Pair(1, 1)
    /\ kLock = [writer |-> FALSE, readers |-> {}]
    /\ kLoop \in {LoopState(pc, 0, 0, 0, 0, NoPair) : pc \in loops}
    /\ kLook = [c \in Conns |-> Lookup("none", 0, NoPair)]

\* CertCheckRate is 0: no loop
KeyPairIdle == KeyPairInit({"none"})

\* somebody replaces the key file or the certificate file
FileWrite(which, v) ==
    /\ kFiles[which] # v
    /\ kFiles' = [kFiles EXCEPT ![which] = v]
    /\ UNCHANGED <<kSlot, kLock, kLoop, kLook>>
    /\ UNCHANGED nonKeyPairVars

\* the loop reads the two files; when a read fails it logs and continues
\* with the next pass at once
CheckRead ==
    /\ kLoop.pc = "check"
    /\ \E ok \in BOOLEAN :
          kLoop' = IF ok
                   THEN [kLoop EXCEPT !.pc = "compare", !.keyBytes = kFiles.key,
                                      !.certBytes = kFiles.cert]
                   ELSE kLoop
    /\ UNCHANGED <<kFiles, kSlot, kLock, kLook>>
    /\ UNCHANGED nonKeyPairVars

\* the bytes differ from those of the last pair the loop took
Changed(l) == l.keyBytes # l.lastKeyBytes \/ l.lastCertBytes # l.certBytes

\* the loop compares the bytes with the last ones and, when they differ,
\* loads the pair from the files; a failed load makes it continue with the
\* next pass at once
CheckLoadStep(l, loaded) ==
    IF ~Changed(l) THEN [l EXCEPT !.pc = "select"]
    ELSE IF loaded.err THEN [l EXCEPT !.pc = "check"]
    ELSE [l EXCEPT !.pc = "lock", !.keyPair = loaded.keyPair]

CheckLoad ==
    /\ kLoop.pc = "compare"
    /\ kLoop' = CheckLoadStep(kLoop, loadKeyPair(kFiles))
    /\ UNCHANGED <<kFiles, kSlot, kLock, kLook>>
    /\ UNCHANGED nonKeyPairVars

\* a lock that excludes nobody
LockFree(lock) == TRUE

\* Lock() returns when nobody holds the lock
CanLock(lock) == ~lock.writer /\ lock.readers = {}

\* s.keyPairLock.Lock()
CheckLock ==
    /\ kLoop.pc = "lock"
    /\ CanLock(kLock)
    /\ kLock' = [kLock EXCEPT !.writer = TRUE]
    /\ kLoop' = [kLoop EXCEPT !.pc = "swap"]
    /\ UNCHANGED <<kFiles, kSlot, kLook>>
    /\ UNCHANGED nonKeyPairVars

\* s.keyPair = []tls.Certificate{*keyPair}, Unlock(), and the bytes become
\* the last ones
CheckSwap ==
    /\ kLoop.pc = "swap"
    /\ kSlot' = kLoop.keyPair
    /\ kLock' = [kLock EXCEPT !.writer = FALSE]
    /\ kLoop' = [kLoop EXCEPT !.pc = "select", !.lastKeyBytes = kLoop.keyBytes,
                              !.lastCertBytes = kLoop.certBytes]
    /\ UNCHANGED <<kFiles, kLook>>
    /\ UNCHANGED nonKeyPairVars

\* the select of the loop: the ticker, or the context of the server
CheckSelect ==
    /\ kLoop.pc = "select"
    /\ \/ kLoop' = [kLoop EXCEPT !.pc = "check"]
       \/ sDone /\ kLoop' = [kLoop EXCEPT !.pc = "returned"]
    /\ UNCHANGED <<kFiles, kSlot, kLock, kLook>>
    /\ UNCHANGED nonKeyPairVars

\* the context of the server is cancelled
KeyPairCancel ==
    /\ ~sDone
    /\ sDone' = TRUE
    /\ UNCHANGED keyPairVars
    /\ UNCHANGED <<trojanVars, tlsVars, matchVars, wsVars, trVars, linkVars, relayVars,
                   acceptPacketVars, optionVars, contextVars,
                   loadVars, muxVars, treeVars>>

\* GetCertificate of the handshake of c: RLock()
LookupLock(c) ==
    /\ kLook[c].pc = "none"
    /\ ~kLock.writer
    /\ kLock' = [kLock EXCEPT !.readers = @ \cup {c}]
    /\ kLook' = [kLook EXCEPT ![c].pc = "names"]
    /\ UNCHANGED <<kFiles, kSlot, kLoop>>
    /\ UNCHANGED nonKeyPairVars

\* it reads the names of s.keyPair[0].Leaf and matches the ServerName
LookupNames(c) ==
    /\ kLook[c].pc = "names"
    /\ kLook' = [kLook EXCEPT ![c].pc = "return", ![c].names = kSlot.leaf]
    /\ UNCHANGED <<kFiles, kSlot, kLock, kLoop>>
    /\ UNCHANGED nonKeyPairVars

\* it returns &s.keyPair[0], and the deferred RUnlock()
LookupReturn(c) ==
    /\ kLook[c].pc = "return"
    /\ kLook' = [kLook EXCEPT ![c].pc = "done", ![c].ret = kSlot]
    /\ kLock' = [kLock EXCEPT !.readers = @ \ {c}]
    /\ UNCHANGED <<kFiles, kSlot, kLoop>>
    /\ UNCHANGED nonKeyPairVars

----------------------------------------------------------------------------
(* Shutdown: the tasks at one channel between two layers *)

\* the channels between the layers: the accept loop whose handlers send on
\* the channel, the loop that receives from it, whether the handler reads
\* from the client before it sends (the transport server's does when an
\* HTTP overlay is registered), whether the send is one case of a select
\* with <-ctx.Done(), and whether the handler goes back to reading after
\* the send
Link(chan, producer, consumer, reads, selects, loops) ==
    [chan |-> chan, producer |-> producer, consumer |-> consumer,
     reads |-> reads, selects |-> selects, loops |-> loops]

Links ==
    { Link("transport.connChan", "transport", "tls", FALSE, FALSE, FALSE),
      Link("transport.connChan", "transport", "tls", TRUE, FALSE, FALSE),
      Link("transport.wsChan", "transport", "websocket", TRUE, FALSE, FALSE),
      Link("tls.connChan", "tls", "trojan", TRUE, FALSE, FALSE),
      Link("tls.wsChan", "tls", "websocket", TRUE, FALSE, FALSE),
      Link("trojan.connChan", "trojan", "relayConn", TRUE, FALSE, FALSE),
      Link("trojan.muxChan", "trojan", "mux", TRUE, FALSE, FALSE),
      Link("trojan.packetChan", "trojan", "relayPacket", TRUE, FALSE, FALSE),
      Link("mux.connChan", "mux", "simplesocks", TRUE, TRUE, TRUE) }

\* the loops of Proxy that start a relay handler for what they receive
RelayLoops == {"relayConn", "relayPacket"}

\* the channel holds any number of connections that earlier handlers sent
LinkInit(links, lens) ==
    /\ lnk \in links
    /\ chLen \in lens
    /\ lDone = FALSE
    /\ lLoop = [producer |-> "running", consumer |-> "running"]
    /\ hPc = [c \in Conns |-> "none"]
    /\ relays = 0

LinkIdle ==
    LinkInit({Link("transport.connChan", "transport", "tls", FALSE, FALSE, FALSE)}, {0})

\* the producer's accept loop takes connection c from its underlay and
\* starts the handler; the listener of the transport server gives none once
\* it is closed
LinkAccept(c) ==
    /\ lLoop.producer = "running"
    /\ lnk.producer = "transport" => ~lDone
    /\ hPc[c] = "none"
    /\ hPc' = [hPc EXCEPT ![c] = IF lnk.reads THEN "reading" ELSE "sending"]
    /\ UNCHANGED <<lnk, lDone, chLen, lLoop, relays>>
    /\ UNCHANGED nonLinkVars

\* the client of c sends what the handler waits for, and the handler goes
\* on to the send, or the read fails and the handler gives the connection
\* up (closes it or hands it to the redirector) and returns
LinkRead(c) ==
    /\ hPc[c] = "reading"
    /\ \E ok \in BOOLEAN :
          hPc' = [hPc EXCEPT ![c] = IF ok THEN "sending" ELSE "exited"]
    /\ UNCHANGED <<lnk, lDone, chLen, lLoop, relays>>
    /\ UNCHANGED nonLinkVars

\* the send of the handler of c, which waits while the channel is full
LinkSend(c) ==
    /\ hPc[c] = "sending"
    /\ chLen < ChanCap
    /\ chLen' = chLen + 1
    /\ hPc' = [hPc EXCEPT ![c] = IF lnk.loops THEN "reading" ELSE "exited"]
    /\ UNCHANGED <<lnk, lDone, lLoop, relays>>
    /\ UNCHANGED nonLinkVars

\* the select around the send takes the case <-ctx.Done(): the handler
\* returns and closes the connection
LinkSendCancelled(c) ==
    /\ hPc[c] = "sending"
    /\ lnk.selects
    /\ lDone
    /\ hPc' = [hPc EXCEPT ![c] = "exited"]
    /\ UNCHANGED <<lnk, lDone, chLen, lLoop, relays>>
    /\ UNCHANGED nonLinkVars

\* AcceptConn or AcceptPacket of the consumer receives from the channel; a
\* relay loop starts a relay handler for what it got
LinkReceive ==
    /\ lLoop.consumer = "running"
    /\ chLen > 0
    /\ chLen' = chLen - 1
    /\ relays' = IF lnk.consumer \in RelayLoops THEN relays + 1 ELSE relays
    /\ UNCHANGED <<lnk, lDone, lLoop, hPc>>
    /\ UNCHANGED nonLinkVars

\* the select of AcceptConn of the consumer takes the case <-ctx.Done(),
\* AcceptConn returns an error, and the loop that called it returns
LinkConsumerExit ==
    /\ lDone
    /\ lLoop.consumer = "running"
    /\ lLoop' = [lLoop EXCEPT !.consumer = "returned"]
    /\ UNCHANGED <<lnk, lDone, chLen, hPc, relays>>
    /\ UNCHANGED nonLinkVars

\* the accept of the producer's loop fails, the context being cancelled
\* (the listener being closed), and the loop returns
LinkProducerExit ==
    /\ lDone
    /\ lLoop.producer = "running"
    /\ lLoop' = [lLoop EXCEPT !.producer = "returned"]
    /\ UNCHANGED <<lnk, lDone, chLen, hPc, relays>>
    /\ UNCHANGED nonLinkVars

\* a copy of a relay handler ends, errChan delivers, and the handler
\* returns and closes both connections
RelayCopyEnds ==
    /\ relays > 0
    /\ relays' = relays - 1
    /\ UNCHANGED <<lnk, lDone, chLen, lLoop, hPc>>
    /\ UNCHANGED nonLinkVars

\* the select of a relay handler takes the case <-p.ctx.Done(), and the
\* handler returns and closes both connections
RelayCancelled ==
    /\ lDone
    /\ relays > 0
    /\ relays' = relays - 1
    /\ UNCHANGED <<lnk, lDone, chLen, lLoop, hPc>>
    /\ UNCHANGED nonLinkVars

\* Proxy.Close: the top-level context is cancelled, and sink and sources are
\* closed, down to the listener
ProxyClose ==
    /\ ~lDone
    /\ lDone' = TRUE
    /\ UNCHANGED <<lnk, chLen, lLoop, hPc, relays>>
    /\ UNCHANGED nonLinkVars

----------------------------------------------------------------------------
(* The relay loops of Proxy *)

\* MaxPacketSize = 1024 * 8
MaxPacketSize == 8192

\* number of accept errors a relay loop sees before cancellation in one run
MaxErrs == 2

\* number of inbounds whose handlers are followed step by step in one run
NRelay == 1

Relayed == 1..NRelay

\* what a connection delivers to one Read or ReadWithMetadata: data, the
\* end of the stream, or an error
Item(kind, payload, len, metadata) ==
    [kind |-> kind, payload |-> payload, len |-> len, metadata |-> metadata]

NoItem == Item("none", 0, 0, "")
EOFItem == Item("eof", 0, 0, "")
ErrItem == Item("err", 0, 0, "")

\* what the peers of an inbound and of an outbound send, by kind of relay;
\* a peer whose items are used up stays silent
InboundSources(kind) ==
    IF kind = "conn"
    THEN { <<>>, <<Item("data", 1, 100, ""), EOFItem>>, <<ErrItem>> }
    ELSE { <<>>,
           <<Item("data", 1, 100, "a:53"), Item("data", 2, MaxPacketSize, "b:53"),
             Item("data", 3, 0, "a:53")>>,
           <<ErrItem>> }

OutboundSources(kind) ==
    IF kind = "conn"
    THEN { <<>>, <<EOFItem>> }
    ELSE { <<>>, <<Item("data", 8, 5, "a:53")>> }

\* inbound.Metadata().Address
Addresses == {"a:80", "b:443"}

\* a connection: what its peer sends (src), what was read from it (rd),
\* what was written to it (dst), whether writes to it fail, whether it was
\* closed
RelayConn(addr, src, broken) ==
    [addr |-> addr, src |-> src, rd |-> <<>>, dst |-> <<>>, broken |-> broken,
     closed |-> FALSE]

NoRelayConn == RelayConn("", <<>>, FALSE)

CopyTask(pc, hold) == [pc |-> pc, hold |-> hold]

NoCopy == [up |-> CopyTask("none", NoItem), down |-> CopyTask("none", NoItem)]

RelayInit(kinds) ==
    /\ rKind \in kinds
    /\ rLoop = "accepting"
    /\ rErrs = 0
    /\ rLog = <<>>
    /\ rPc = [c \in Relayed |-> "none"]
    /\ rIn = [c \in Relayed |-> NoRelayConn]
    /\ rOut = [c \in Relayed |-> NoRelayConn]
    /\ rDials = [c \in Relayed |-> <<>>]
    /\ rCopy = [c \in Relayed |-> NoCopy]
    /\ rErrChan = [c \in Relayed |-> <<>>]
    /\ rGot = [c \in Relayed |-> "none"]

RelayIdle == RelayInit({"conn"})

\* source.AcceptConn or source.AcceptPacket returns inbound c, and the loop
\* starts its handler
RelayAccept(c) ==
    /\ rLoop = "accepting"
    /\ rPc[c] = "none"
    /\ \A d \in Relayed : d < c => rPc[d] # "none"
    /\ \E addr \in Addresses, src \in InboundSources(rKind) :
          rIn' = [rIn EXCEPT ![c] = RelayConn(addr, src, FALSE)]
    /\ rPc' = [rPc EXCEPT ![c] = "dial"]
    /\ UNCHANGED <<rKind, rLoop, rErrs, rLog, rOut, rDials, rCopy, rErrChan, rGot>>
    /\ UNCHANGED nonRelayVars

\* source.AcceptConn or source.AcceptPacket returns an error
RelayAcceptError ==
    /\ rLoop = "accepting"
    /\ lDone \/ rErrs < MaxErrs
    /\ rLoop' = "failed"
    /\ rErrs' = IF lDone THEN rErrs ELSE rErrs + 1
    /\ UNCHANGED <<rKind, rLog, rPc, rIn, rOut, rDials, rCopy, rErrChan, rGot>>
    /\ UNCHANGED nonRelayVars

\* the messages of the loop
LogExiting == [level |-> "debug", msg |-> "exiting"]

LogAcceptFailed(kind) ==
    [level |-> "error",
     msg |-> IF kind = "conn" THEN "failed to accept connection"
                              ELSE "failed to accept packet"]

\* a loop that returns on every accept error
RelayLoopCheckExit ==
    /\ rLoop = "failed"
    /\ rLoop' = "returned"
    /\ rLog' = Append(rLog, LogExiting)
    /\ UNCHANGED <<rKind, rErrs, rPc, rIn, rOut, rDials, rCopy, rErrChan, rGot>>
    /\ UNCHANGED nonRelayVars

\* the select of the loop after an accept error: on <-p.ctx.Done() the loop
\* returns, by default it logs the error and continues
RelayLoopCheck ==
    /\ rLoop = "failed"
    /\ IF lDone
       THEN /\ rLoop' = "returned"
            /\ rLog' = Append(rLog, LogExiting)
       ELSE /\ rLoop' = "accepting"
            /\ rLog' = Append(rLog, LogAcceptFailed(rKind))
    /\ UNCHANGED <<rKind, rErrs, rPc, rIn, rOut, rDials, rCopy, rErrChan, rGot>>
    /\ UNCHANGED nonRelayVars

\* the copy tasks of a handler that starts them: both read first
Copying == [up |-> CopyTask("reading", NoItem), down |-> CopyTask("reading", NoItem)]

\* whether the writes to an outbound fail while it is open: the outbound of
\* a packet relay may be broken; on a stream a write fails once the handler
\* closed it
Broken(kind) == IF kind = "packet" THEN BOOLEAN ELSE {FALSE}

\* the handler of c dials the sink with the address of inbound's metadata
\* (DialPacket takes no address); if the dial fails it returns, closing
\* inbound, otherwise it starts the two copy tasks and waits in the select
RelayDial(c) ==
    /\ rPc[c] = "dial"
    /\ rDials' = [rDials EXCEPT ![c] = Append(@, IF rKind = "conn" THEN rIn[c].addr ELSE "")]
    /\ \E ok \in BOOLEAN :
          IF ok
          THEN /\ \E src \in OutboundSources(rKind), broken \in Broken(rKind) :
                     rOut' = [rOut EXCEPT ![c] =
                                 RelayConn(IF rKind = "conn" THEN rIn[c].addr ELSE "",
                                           src, broken)]
               /\ rCopy' = [rCopy EXCEPT ![c] = Copying]
               /\ rPc' = [rPc EXCEPT ![c] = "select"]
               /\ UNCHANGED rIn
          ELSE /\ rIn' = [rIn EXCEPT ![c].closed = TRUE]
               /\ rPc' = [rPc EXCEPT ![c] = "returned"]
               /\ UNCHANGED <<rOut, rCopy>>
    /\ UNCHANGED <<rKind, rLoop, rErrs, rLog, rErrChan, rGot>>
    /\ UNCHANGED nonRelayVars

\* the connection a copy task of direction dir reads from, and the one it
\* writes to
ReadsInbound(dir) == dir = "up"

\* a read can return: the connection was closed, or its peer sent something
CanRead(conn) == conn.closed \/ conn.src # <<>>

\* Read, or ReadWithMetadata into a buffer of MaxPacketSize bytes: what it
\* returns, [n, metadata, err, eof, payload]
ReadWithMetadata(conn) ==
    IF conn.closed \/ conn.src[1].kind = "err"
    THEN [n |-> 0, metadata |-> "", err |-> TRUE, eof |-> FALSE, payload |-> 0]
    ELSE IF conn.src[1].kind = "eof"
    THEN [n |-> 0, metadata |-> "", err |-> FALSE, eof |-> TRUE, payload |-> 0]
    ELSE [n |-> Min(conn.src[1].len, MaxPacketSize),
          metadata |-> conn.src[1].metadata, err |-> FALSE, eof |-> FALSE,
          payload |-> conn.src[1].payload]

\* the connection after that read
AfterRead(conn) ==
    IF conn.closed THEN conn
    ELSE [conn EXCEPT !.src = Tail(@), !.rd = Append(@, conn.src[1])]

\* what a copy task does with what it read: "err" and "nil" end it with that
\* value on errChan, "write" makes it write
ReadOutcome(kind, r) ==
    IF r.err THEN "err"
    ELSE IF r.eof \/ (kind = "packet" /\ r.n = 0) THEN "nil"
    ELSE "write"

\* a write of the whole buffer instead of the bytes read
WholeBuffer(r) == Item("data", r.payload, MaxPacketSize, r.metadata)

\* buf[:n] with the metadata of the read
Slice(r) == Item("data", r.payload, r.n, r.metadata)

\* one copy task of the handler of c reads
CopyReadStep(c, dir, r, conn) ==
    /\ IF ReadsInbound(dir)
       THEN rIn' = [rIn EXCEPT ![c] = AfterRead(conn)] /\ UNCHANGED rOut
       ELSE rOut' = [rOut EXCEPT ![c] = AfterRead(conn)] /\ UNCHANGED rIn
    /\ IF ReadOutcome(rKind, r) = "write"
       THEN /\ rCopy' = [rCopy EXCEPT ![c][dir] = CopyTask("writing", Slice(r))]
            /\ UNCHANGED rErrChan
       ELSE /\ rCopy' = [rCopy EXCEPT ![c][dir] = CopyTask("done", NoItem)]
            /\ rErrChan' = [rErrChan EXCEPT ![c] = Append(@, ReadOutcome(rKind, r))]

CopyRead(c, dir) ==
    /\ rCopy[c][dir].pc = "reading"
    /\ CanRead(IF ReadsInbound(dir) THEN rIn[c] ELSE rOut[c])
    /\ CopyReadStep(c, dir,
                    ReadWithMetadata(IF ReadsInbound(dir) THEN rIn[c] ELSE rOut[c]),
                    IF ReadsInbound(dir) THEN rIn[c] ELSE rOut[c])
    /\ UNCHANGED <<rKind, rLoop, rErrs, rLog, rPc, rDials, rGot>>
    /\ UNCHANGED nonRelayVars

\* Write, or WriteWithMetadata: it fails on a closed or broken connection
WriteFails(conn) == conn.closed \/ conn.broken

\* one copy task of the handler of c writes what it read to the other side:
\* after a write of a datagram copyPacket reads again, and so does io.Copy
CopyWrite(c, dir) ==
    /\ rCopy[c][dir].pc = "writing"
    /\ IF WriteFails(IF ReadsInbound(dir) THEN rOut[c] ELSE rIn[c])
       THEN /\ rCopy' = [rCopy EXCEPT ![c][dir] = CopyTask("done", NoItem)]
            /\ rErrChan' = [rErrChan EXCEPT ![c] = Append(@, "err")]
            /\ UNCHANGED <<rIn, rOut>>
       ELSE /\ rCopy' = [rCopy EXCEPT ![c][dir] = CopyTask("reading", NoItem)]
            /\ IF ReadsInbound(dir)
               THEN rOut' = [rOut EXCEPT ![c].dst = Append(@, rCopy[c][dir].hold)]
                    /\ UNCHANGED rIn
               ELSE rIn' = [rIn EXCEPT ![c].dst = Append(@, rCopy[c][dir].hold)]
                    /\ UNCHANGED rOut
            /\ UNCHANGED rErrChan
    /\ UNCHANGED <<rKind, rLoop, rErrs, rLog, rPc, rDials, rGot>>
    /\ UNCHANGED nonRelayVars

\* a handler that returns leaving inbound open
RelayReturnLeak(c, got) ==
    /\ rGot' = [rGot EXCEPT ![c] = got]
    /\ rOut' = [rOut EXCEPT ![c].closed = TRUE]
    /\ rPc' = [rPc EXCEPT ![c] = "returned"]
    /\ UNCHANGED rIn

\* the handler returns: the deferred outbound.Close() and inbound.Close()
RelayReturn(c, got) ==
    /\ rGot' = [rGot EXCEPT ![c] = got]
    /\ rOut' = [rOut EXCEPT ![c].closed = TRUE]
    /\ rIn' = [rIn EXCEPT ![c].closed = TRUE]
    /\ rPc' = [rPc EXCEPT ![c] = "returned"]

\* the select of the handler receives from errChan
RelaySelectErr(c) ==
    /\ rPc[c] = "select"
    /\ rErrChan[c] # <<>>
    /\ rErrChan' = [rErrChan EXCEPT ![c] = Tail(@)]
    /\ RelayReturn(c, rErrChan[c][1])
    /\ UNCHANGED <<rKind, rLoop, rErrs, rLog, rDials, rCopy>>
    /\ UNCHANGED nonRelayVars

\* the select of the handler takes the case <-p.ctx.Done()
RelaySelectDone(c) ==
    /\ rPc[c] = "select"
    /\ lDone
    /\ RelayReturn(c, "ctx")
    /\ UNCHANGED <<rKind, rLoop, rErrs, rLog, rDials, rCopy, rErrChan>>
    /\ UNCHANGED nonRelayVars

----------------------------------------------------------------------------
(* AcceptPacket of the servers *)

\* the servers of the pipeline
Servers == {"transport", "tls", "websocket", "trojan", "mux"}

\* the servers that relay no datagrams
NoPacketServers == {"transport", "tls", "websocket", "mux"}

\* AcceptPacket of a server that relays no datagrams: the WebSocket server
\* returns an error, the others panic
AcceptPacket(server) ==
    IF server = "websocket" THEN "error" ELSE "panic"

AcceptPacketInit(servers) ==
    /\ apSource \in servers
    /\ apResult = "none"

AcceptPacketIdle == AcceptPacketInit({"trojan"})

\* the packet loop calls AcceptPacket of a server that relays no datagrams:
\* an error is what the loop's select handles, a panic ends the loop's task
\* and, nothing recovering it, the process
AcceptPacketCall ==
    /\ apSource \in NoPacketServers
    /\ rLoop = "accepting"
    /\ lDone \/ rErrs < MaxErrs
    /\ apResult' = AcceptPacket(apSource)
    /\ rLoop' = IF AcceptPacket(apSource) = "panic" THEN "panicked" ELSE "failed"
    /\ rErrs' = IF lDone THEN rErrs ELSE rErrs + 1
    /\ UNCHANGED apSource
    /\ UNCHANGED <<rKind, rLog, rPc, rIn, rOut, rDials, rCopy, rErrChan, rGot>>
    /\ UNCHANGED <<trojanVars, tlsVars, matchVars, wsVars, trVars, sDone, linkVars,
                   keyPairVars, optionVars, contextVars,
                   loadVars, muxVars, treeVars>>

----------------------------------------------------------------------------
(* main and the option handlers *)

\* the handlers that the init functions register
Handlers == {"easy", "PROXY", "PROXY_STDIN"}

\* Priority() of each handler
Priority(h) ==
    CASE h = "easy" -> 50
      [] h = "PROXY_STDIN" -> 0
      [] h = "PROXY" -> 0 - 1

\* the values of -config: none, a file that is there, a file of another
\* format, a file that is not there
Paths == {"", "server.json", "server.txt", "missing.yaml"}

\* the command lines
Flags ==
    [server : BOOLEAN, password : {"", "pw"},
     format : {"disabled", "json", "yaml"}, path : Paths]

\* the files of the working directory
Files(default) ==
    {"server.json", "server.txt"} \cup (IF default THEN {"config.json"} ELSE {})

\* detectAndReadConfig: "fatal" for a format it does not support, "err" for
\* a file it cannot read, otherwise the data
detectAndReadConfig(file, default) ==
    IF file \notin {"server.json", "config.json", "missing.yaml"} THEN "fatal"
    ELSE IF file \notin Files(default) THEN "err"
    ELSE "data"

\* the handler with the highest priority among those left
PopOptionHandler(left) ==
    CHOOSE h \in left : \A g \in left : Priority(g) <= Priority(h)

\* NewProxyFromConfigData followed by Run: log.Fatal when the proxy cannot
\* be built, otherwise the handler is inside Run
NewProxyAndRun(data) == IF data = "valid" THEN "run" ELSE "fatal"

\* easy.Handle up to the call of Run
EasyHandle(flags, data) ==
    IF ~flags.server THEN "error"
    ELSE IF flags.password = "" THEN "fatal"
    ELSE NewProxyAndRun(data)

\* StdinOption.Handle up to the call of Run
StdinHandle(flags, data) ==
    IF flags.format = "disabled" THEN "error" ELSE NewProxyAndRun(data)

\* Option.Handle up to the call of Run: without -config the default paths
\* are tried and one that cannot be read is skipped, with it a failure is
\* fatal at once; without data the handler goes to its last statement,
\* log.Fatal("no valid config")
OptionHandleStart(flags, data, default) ==
    LET read == detectAndReadConfig(IF flags.path = "" THEN "config.json" ELSE flags.path,
                                    default)
    IN  IF read = "data" THEN NewProxyAndRun(data) ELSE "fatal"

\* Handle() of h up to the call of Run
Handle(h, flags, data, default) ==
    CASE h = "easy" -> EasyHandle(flags, data)
      [] h = "PROXY_STDIN" -> StdinHandle(flags, data)
      [] h = "PROXY" -> OptionHandleStart(flags, data, default)

\* what follows the return of Run in Handle() of h: Option.Handle goes on to
\* log.Fatal("no valid config"), the other two return nil
AfterRun(h) == IF h = "PROXY" THEN "fatal" ELSE "nil"

OptionInit(flags, data, defaults) ==
    /\ oFlags \in flags
    /\ oData \in data
    /\ oDefault \in defaults
    /\ handlers = Handlers
    /\ mHandler = "none"
    /\ mPc = "pop"
    /\ exitCode = "none"

OptionIdle ==
    OptionInit({[server |-> FALSE, password |-> "", format |-> "disabled", path |-> ""]},
               {"valid"}, {FALSE})

\* main: h, err := option.PopOptionHandler(); log.Fatal when none is left
MainPop ==
    /\ mPc = "pop"
    /\ IF handlers = {}
       THEN /\ mPc' = "exited" /\ exitCode' = 1
            /\ UNCHANGED <<handlers, mHandler>>
       ELSE /\ mHandler' = PopOptionHandler(handlers)
            /\ handlers' = handlers \ {mHandler'}
            /\ mPc' = "handle"
            /\ UNCHANGED exitCode
    /\ UNCHANGED <<oFlags, oData, oDefault>>
    /\ UNCHANGED nonOptionVars

\* main: err = h.Handle(), up to the call of Run; an error sends main to the
\* next handler, log.Fatal ends the process
MainHandle ==
    /\ mPc = "handle"
    /\ LET got == Handle(mHandler, oFlags, oData, oDefault)
       IN  /\ mPc' = CASE got = "error" -> "pop"
                       [] got = "fatal" -> "exited"
                       [] got = "run" -> "run"
           /\ exitCode' = IF got = "fatal" THEN 1 ELSE exitCode
    /\ UNCHANGED <<oFlags, oData, oDefault, handlers, mHandler>>
    /\ UNCHANGED nonOptionVars

\* Run: <-p.ctx.Done() is passed, Run returns nil and Handle() goes on to
\* its end; when Handle() returns nil main leaves its loop and returns
RunReturns ==
    /\ mPc = "run"
    /\ lDone
    /\ mPc' = "exited"
    /\ exitCode' = IF AfterRun(mHandler) = "fatal" THEN 1 ELSE 0
    /\ UNCHANGED <<oFlags, oData, oDefault, handlers, mHandler>>
    /\ UNCHANGED nonOptionVars

----------------------------------------------------------------------------
(* The contexts of the servers and the accept loop of the TLS server *)

\* the servers of one path of the tree that the server creator builds
Pipeline == {"transport", "tls", "websocket", "trojan"}

\* the context of the creator, which NewProxy gets with its cancel function,
\* and the context that NewServer of each server derives from it: BuildNext
\* passes n.Context, the creator's context, to every NewServer
Contexts == {"proxy"} \cup Pipeline

\* Close() of a server cancels the server's context and then calls Close()
\* of its underlay: the servers closed, in the order of their cancel()
CloseChain(server) ==
    CASE server = "transport" -> <<"transport">>
      [] server = "tls" -> <<"tls", "transport">>
      [] server = "websocket" -> <<"websocket", "tls", "transport">>
      [] server = "trojan" -> <<"trojan", "tls", "transport">>

ContextInit(begun) ==
    /\ ctxDone = [x \in Contexts |-> FALSE]
    /\ cancelling = {}
    /\ closing = <<>>
    /\ shutdownBy = "none"
    /\ queued \in begun
    /\ tlsPc = "accept"

ContextIdle == ContextInit({0})

\* the handler of the transport server sends a connection to connChan
ConnQueued ==
    /\ ~ctxDone["transport"]
    /\ queued < NConn
    /\ queued' = queued + 1
    /\ UNCHANGED <<ctxDone, cancelling, closing, shutdownBy, tlsPc>>
    /\ UNCHANGED nonContextVars

\* p.cancel(): the context of the creator is cancelled; its children are
\* cancelled after it, one at a time
ProxyCancel ==
    /\ ~ctxDone["proxy"]
    /\ cancelling = {} /\ closing = <<>>
    /\ ctxDone' = [ctxDone EXCEPT !["proxy"] = TRUE]
    /\ cancelling' = {x \in Pipeline : ~ctxDone[x]}
    /\ shutdownBy' = IF shutdownBy = "none" THEN "cancel" ELSE shutdownBy
    /\ UNCHANGED <<closing, queued, tlsPc>>
    /\ UNCHANGED nonContextVars

\* the cancel() of the parent cancels one more child; the children are kept
\* in a map, so the order is any
CancelChild(x) ==
    /\ x \in cancelling
    /\ ctxDone' = [ctxDone EXCEPT ![x] = TRUE]
    /\ cancelling' = cancelling \ {x}
    /\ UNCHANGED <<closing, shutdownBy, queued, tlsPc>>
    /\ UNCHANGED nonContextVars

\* Close() is called on a server
ServerClose(server) ==
    /\ cancelling = {} /\ closing = <<>>
    /\ ~ctxDone[server]
    /\ closing' = CloseChain(server)
    /\ shutdownBy' = IF shutdownBy = "none" THEN server ELSE shutdownBy
    /\ UNCHANGED <<ctxDone, cancelling, queued, tlsPc>>
    /\ UNCHANGED nonContextVars

\* Close() of the next server of the chain: s.cancel(), and the call of
\* s.underlay.Close() that follows
CloseStep ==
    /\ closing # <<>>
    /\ ctxDone' = [ctxDone EXCEPT ![Head(closing)] = TRUE]
    /\ closing' = Tail(closing)
    /\ UNCHANGED <<cancelling, shutdownBy, queued, tlsPc>>
    /\ UNCHANGED nonContextVars

\* acceptLoop of the TLS server: AcceptConn of the transport server returns
\* a connection of connChan, which the loop hands to a handler task
TLSLoopConn ==
    /\ tlsPc = "accept"
    /\ queued > 0
    /\ queued' = queued - 1
    /\ UNCHANGED <<ctxDone, cancelling, closing, shutdownBy, tlsPc>>
    /\ UNCHANGED nonContextVars

\* acceptLoop of the TLS server: AcceptConn of the transport server returns
\* "transport server closed" because the context of the transport server is
\* done (with a connection in connChan the select takes either case)
TLSLoopError ==
    /\ tlsPc = "accept"
    /\ ctxDone["transport"]
    /\ tlsPc' = "erred"
    /\ UNCHANGED <<ctxDone, cancelling, closing, shutdownBy, queued>>
    /\ UNCHANGED nonContextVars

\* the select of acceptLoop after the error: return when the context of the
\* TLS server is done, log.Fatal by default
LoopSelect(done) == IF done THEN "returned" ELSE "fatal"

\* acceptLoop of the TLS server after the error
TLSLoopSelect ==
    /\ tlsPc = "erred"
    /\ tlsPc' = LoopSelect(ctxDone["tls"])
    /\ UNCHANGED <<ctxDone, cancelling, closing, shutdownBy, queued>>
    /\ UNCHANGED nonContextVars

----------------------------------------------------------------------------
(* loadKeyPair, called on its own *)

\* a key file: whether it can be read, whether it holds a PEM block, the
\* password its key is encrypted with ("" when it is not encrypted), and the
\* key
KeyFile(readable, pem, encrypted, key) ==
    [readable |-> readable, pem |-> pem, encrypted |-> encrypted, key |-> key]

\* a certificate file: whether it holds a PEM block, and the key its
\* certificate is for
CertFile(pem, cert) == [pem |-> pem, cert |-> cert]

Passwords == {"", "pw", "other"}

KeyFiles ==
    {KeyFile(r, p, e, k) : r \in BOOLEAN, p \in BOOLEAN, e \in {"", "pw"}, k \in FileVersions}

CertFiles == {CertFile(p, c) : p \in BOOLEAN, c \in FileVersions}

\* what loadKeyPair returns
Loaded(err, keyPair) == [err |-> err, keyPair |-> keyPair]

\* loadKeyPair was not called
NotCalled == Loaded("none", NoPair)

\* x509.DecryptPEMBlock: the key, or an error for a block that is not
\* encrypted or a password that is not the block's
DecryptPEMBlock(keyBlock, password) ==
    IF keyBlock.encrypted # "" /\ keyBlock.encrypted = password
    THEN [err |-> "", key |-> keyBlock.key]
    ELSE [err |-> "decrypt", key |-> 0]

\* tls.X509KeyPair and x509.ParseCertificate: the pair, or an error when
\* the key is none or is not the certificate's
X509KeyPair(cert, key) ==
    IF key # 0 /\ key = cert
    THEN Loaded("", Pair(key, cert))
    ELSE Loaded("tls: private key does not match public key", NoPair)

\* loadKeyPair after DecryptPEMBlock: "if err == nil" returns the error
AfterDecrypt(certFile, decrypted) ==
    IF decrypted.err = "" THEN Loaded("failed to decrypt key", NoPair)
    ELSE IF ~certFile.pem THEN Loaded("failed to decode cert file", NoPair)
    ELSE X509KeyPair(certFile.cert, decrypted.key)

\* loadKeyPair with a password
loadKeyPairPassword(keyFile, certFile, password) ==
    IF ~keyFile.readable THEN Loaded("failed to load key file", NoPair)
    ELSE IF ~keyFile.pem THEN Loaded("failed to decode key file", NoPair)
    ELSE AfterDecrypt(certFile, DecryptPEMBlock(keyFile, password))

\* loadKeyPair without a password: tls.LoadX509KeyPair of the two files,
\* which takes no encrypted key
LoadX509KeyPair(keyFile, certFile) ==
    IF ~keyFile.readable \/ ~keyFile.pem \/ ~certFile.pem \/ keyFile.encrypted # ""
    THEN Loaded("failed to load key pair", NoPair)
    ELSE IF keyFile.key # certFile.cert THEN Loaded("failed to load key pair", NoPair)
    ELSE Loaded("", Pair(keyFile.key, certFile.cert))

\* loadKeyPair(keyPath, certPath, password)
loadKeyPairFiles(keyFile, certFile, password) ==
    IF password # "" THEN loadKeyPairPassword(keyFile, certFile, password)
    ELSE LoadX509KeyPair(keyFile, certFile)

LoadInit(keys, certs, passwords) ==
    /\ ldKey \in keys
    /\ ldCert \in certs
    /\ ldPassword \in passwords
    /\ ldRet = NotCalled

LoadIdle == LoadInit({KeyFile(TRUE, TRUE, "", 1)}, {CertFile(TRUE, 1)}, {""})

\* NewServer or checkKeyPairLoop calls loadKeyPair
LoadCall ==
    /\ ldRet = NotCalled
    /\ ldRet' = loadKeyPairFiles(ldKey, ldCert, ldPassword)
    /\ UNCHANGED <<ldKey, ldCert, ldPassword>>
    /\ UNCHANGED nonLoadVars

----------------------------------------------------------------------------
(* The mux server *)

\* the carrier connections the underlay hands to the mux server
Carriers == {1, 2}

\* streams that the client of one carrier connection opens in one run
MaxStreams == 2

\* a stream that an earlier carrier connection left in connChan
EarlierStream == [carrier |-> 0, stream |-> 0]

\* the session task of a carrier connection: where it is, the sessions
\* opened over the connection, the streams AcceptStream returned, whether
\* the session and the connection are closed
SessionTask(pc, sessions, accepted, sessionClosed, connClosed) ==
    [pc |-> pc, sessions |-> sessions, accepted |-> accepted,
     sessionClosed |-> sessionClosed, connClosed |-> connClosed]

NoTask == SessionTask("none", 0, <<>>, FALSE, FALSE)

MuxInit(fill) ==
    /\ mxDone = FALSE
    /\ mxWorker = "running"
    /\ mxTask = [k \in Carriers |-> NoTask]
    /\ mxChan \in {Rep(n, EarlierStream) : n \in fill}
    /\ mxGot = <<>>

MuxIdle == MuxInit({0})

\* acceptConnWorker takes carrier connection k from the underlay; its
\* handler opens the session with smux.Server and starts the session task
MuxAccept(k) ==
    /\ mxWorker = "running"
    /\ mxTask[k].pc = "none"
    /\ \A j \in Carriers : j < k => mxTask[j].pc # "none"
    /\ mxTask' = [mxTask EXCEPT ![k] = SessionTask("accept", 1, <<>>, FALSE, FALSE)]
    /\ UNCHANGED <<mxDone, mxWorker, mxChan, mxGot>>
    /\ UNCHANGED nonMuxVars

\* AcceptConn of the underlay fails and the context is done: the worker
\* returns
MuxWorkerExit ==
    /\ mxWorker = "running"
    /\ mxDone
    /\ mxWorker' = "returned"
    /\ UNCHANGED <<mxDone, mxTask, mxChan, mxGot>>
    /\ UNCHANGED nonMuxVars

\* session.AcceptStream() returns the next stream of carrier k
MuxAcceptStream(k) ==
    /\ mxTask[k].pc = "accept"
    /\ Len(mxTask[k].accepted) < MaxStreams
    /\ mxTask' = [mxTask EXCEPT ![k].pc = "send",
                                ![k].accepted = Append(@, Len(@) + 1)]
    /\ UNCHANGED <<mxDone, mxWorker, mxChan, mxGot>>
    /\ UNCHANGED nonMuxVars

\* a return of the session task that closes the session only
SessionReturnLeak(task) == [task EXCEPT !.pc = "returned", !.sessionClosed = TRUE]

\* the session task returns: the deferred conn.Close() and session.Close()
SessionReturn(task) ==
    [task EXCEPT !.pc = "returned", !.sessionClosed = TRUE, !.connClosed = TRUE]

\* session.AcceptStream() returns an error
MuxAcceptStreamError(k) ==
    /\ mxTask[k].pc = "accept"
    /\ mxTask' = [mxTask EXCEPT ![k] = SessionReturn(@)]
    /\ UNCHANGED <<mxDone, mxWorker, mxChan, mxGot>>
    /\ UNCHANGED nonMuxVars

\* the select of the session task finds room in connChan and sends the
\* stream (with the context done as well, the select may take either case)
MuxSend(k) ==
    /\ mxTask[k].pc = "send"
    /\ Len(mxChan) < ChanCap
    /\ mxChan' = Append(mxChan, [carrier |-> k, stream |-> Len(mxTask[k].accepted)])
    /\ mxTask' = [mxTask EXCEPT ![k].pc = "accept"]
    /\ UNCHANGED <<mxDone, mxWorker, mxGot>>
    /\ UNCHANGED nonMuxVars

\* the select of the session task finds connChan full and the context not
\* done: the task parks on both
MuxPark(k) ==
    /\ mxTask[k].pc = "send"
    /\ Len(mxChan) = ChanCap
    /\ ~mxDone
    /\ mxTask' = [mxTask EXCEPT ![k].pc = "parked"]
    /\ UNCHANGED <<mxDone, mxWorker, mxChan, mxGot>>
    /\ UNCHANGED nonMuxVars

\* the select of the session task takes <-s.ctx.Done(): at once when it
\* finds the context done, or woken by the cancellation while parked
MuxSendCancelled(k) ==
    /\ mxTask[k].pc \in {"send", "parked"}
    /\ mxDone
    /\ mxTask' = [mxTask EXCEPT ![k] = SessionReturn(@)]
    /\ UNCHANGED <<mxDone, mxWorker, mxChan, mxGot>>
    /\ UNCHANGED nonMuxVars

\* the session tasks that wait in the send queue of connChan (the
\* cancellation takes a parked task off the queue)
Senders == IF mxDone THEN {} ELSE {k \in Carriers : mxTask[k].pc = "parked"}

\* AcceptConn of the mux server returns the next connection of connChan; with
\* a task waiting to send, the receive moves that task's stream into the
\* buffer and the task goes on
MuxAcceptConn ==
    /\ mxChan # <<>>
    /\ mxGot' = Append(mxGot, Head(mxChan))
    /\ IF Senders = {}
       THEN /\ mxChan' = Tail(mxChan)
            /\ UNCHANGED mxTask
       ELSE \E k \in Senders :
            /\ mxChan' = Append(Tail(mxChan),
                                [carrier |-> k, stream |-> Len(mxTask[k].accepted)])
            /\ mxTask' = [mxTask EXCEPT ![k].pc = "accept"]
    /\ UNCHANGED <<mxDone, mxWorker>>
    /\ UNCHANGED nonMuxVars

\* Close() of the mux server cancels its context
MuxClose ==
    /\ ~mxDone
    /\ mxDone' = TRUE
    /\ UNCHANGED <<mxWorker, mxTask, mxChan, mxGot>>
    /\ UNCHANGED nonMuxVars

----------------------------------------------------------------------------
(* The protocol tree of the server *)

NoNext == [x \in {} |-> 0]

Node(name, server) ==
    [Name |-> name, Next |-> NoNext, IsEndpoint |-> FALSE, Server |-> server]

\* what a call of BuildNext leaves: the tree, the servers, the node returned
Built(nodes, servers, ret) == [nodes |-> nodes, servers |-> servers, ret |-> ret]

\* t.NewServer(n.Context, n.Server) and the new node, registered under name
Construct(nodes, servers, n, name) ==
    LET id == Len(nodes) + 1
        s == Len(servers) + 1
        next == nodes[n].Next
        linked == [x \in DOMAIN next \cup {name} |-> IF x = name THEN id ELSE next[x]]
    IN  Built(Append([nodes EXCEPT ![n].Next = linked], Node(name, s)),
              Append(servers, [name |-> name, underlay |-> nodes[n].Server]),
              id)

\* a BuildNext that does not look the name up
BuildNextAgain(nodes, servers, n, name) == Construct(nodes, servers, n, name)

BuildNext(nodes, servers, n, name) ==
    IF name \in DOMAIN nodes[n].Next
    THEN Built(nodes, servers, nodes[n].Next[name])
    ELSE Construct(nodes, servers, n, name)

\* the statements of the server creator after the root node, for a
\* configuration: calls of BuildNext, assignments of a node variable
\* and of IsEndpoint
Build(from, name, to) == [kind |-> "build", from |-> from, name |-> name, to |-> to]
Let(to, from) == [kind |-> "let", from |-> from, name |-> "", to |-> to]
Mark(node) == [kind |-> "mark", from |-> node, name |-> "", to |-> node]

InboundPaths(sub) ==
    <<Build(sub, "TROJAN", "chain"), Build("chain", "MUX", "chain"),
      Build("chain", "SIMPLESOCKS", "chain"), Mark("chain"),
      Build(sub, "TROJAN", "chain"), Mark("chain")>>

Creator(cfg) ==
    (IF cfg.plugin THEN <<>> ELSE <<Build("root", "TLS", "root")>>)
    \o <<Let("trojanSubTree", "root")>>
    \o (IF cfg.shadowsocks
        THEN <<Build("trojanSubTree", "SHADOWSOCKS", "trojanSubTree")>> ELSE <<>>)
    \o InboundPaths("trojanSubTree")
    \o <<Build("root", "WEBSOCKET", "wsSubTree")>>
    \o (IF cfg.shadowsocks
        THEN <<Build("wsSubTree", "SHADOWSOCKS", "wsSubTree")>> ELSE <<>>)
    \o InboundPaths("wsSubTree")

NodeVars == {"root", "trojanSubTree", "wsSubTree", "chain"}

RECURSIVE Reach(_, _)
Reach(nodes, n) ==
    {n} \cup UNION {Reach(nodes, nodes[n].Next[x]) : x \in DOMAIN nodes[n].Next}

\* the servers of the list (the order follows the map iteration)
FindAllEndpoints(nodes, root) ==
    {nodes[n].Server : n \in {m \in Reach(nodes, root) :
                                  nodes[m].IsEndpoint \/ DOMAIN nodes[m].Next = {}}}

TreeInit(cfgs) ==
    /\ tnCfg \in cfgs
    /\ tnNodes = <<>>
    /\ tnServers = <<>>
    /\ tnRegs = [v \in NodeVars |-> 0]
    /\ tnPc = 0
    /\ tnList = {}
    /\ tnExit = "none"

TreeIdle == TreeInit({[plugin |-> FALSE, shadowsocks |-> FALSE]})

\* transport.NewServer(ctx, nil) and the root node; on an error the creator
\* cancels and returns it
CreateRoot ==
    /\ tnExit = "none" /\ tnPc = 0
    /\ \/ /\ tnServers' = <<[name |-> "TRANSPORT", underlay |-> 0]>>
          /\ tnNodes' = <<Node("TRANSPORT", 1)>>
          /\ tnRegs' = [tnRegs EXCEPT !["root"] = 1]
          /\ tnPc' = 1
          /\ UNCHANGED tnExit
       \/ /\ tnExit' = "error"
          /\ UNCHANGED <<tnNodes, tnServers, tnRegs, tnPc>>
    /\ UNCHANGED <<tnCfg, tnList>>
    /\ UNCHANGED nonTreeVars

\* the next statement is a call of BuildNext
AtBuild ==
    /\ tnExit = "none"
    /\ tnPc \in 1..Len(Creator(tnCfg))
    /\ Creator(tnCfg)[tnPc].kind = "build"

CreatorBuild ==
    /\ AtBuild
    /\ LET op == Creator(tnCfg)[tnPc]
           b == BuildNext(tnNodes, tnServers, tnRegs[op.from], op.name)
       IN  /\ tnNodes' = b.nodes
           /\ tnServers' = b.servers
           /\ tnRegs' = [tnRegs EXCEPT ![op.to] = b.ret]
    /\ tnPc' = tnPc + 1
    /\ UNCHANGED <<tnCfg, tnList, tnExit>>
    /\ UNCHANGED nonTreeVars

\* the call of BuildNext does not find the name and NewServer returns an
\* error: log.Fatal
CreatorFatal ==
    /\ AtBuild
    /\ LET op == Creator(tnCfg)[tnPc]
       IN  op.name \notin DOMAIN tnNodes[tnRegs[op.from]].Next
    /\ tnExit' = "fatal"
    /\ UNCHANGED <<tnCfg, tnNodes, tnServers, tnRegs, tnPc, tnList>>
    /\ UNCHANGED nonTreeVars

\* an assignment of a node variable or of IsEndpoint
CreatorAssign ==
    /\ tnExit = "none"
    /\ tnPc \in 1..Len(Creator(tnCfg))
    /\ LET op == Creator(tnCfg)[tnPc]
       IN  \/ /\ op.kind = "let"
              /\ tnRegs' = [tnRegs EXCEPT ![op.to] = tnRegs[op.from]]
              /\ UNCHANGED tnNodes
           \/ /\ op.kind = "mark"
              /\ tnNodes' = [tnNodes EXCEPT ![tnRegs[op.to]].IsEndpoint = TRUE]
              /\ UNCHANGED tnRegs
    /\ tnPc' = tnPc + 1
    /\ UNCHANGED <<tnCfg, tnServers, tnList, tnExit>>
    /\ UNCHANGED nonTreeVars

\* FindAllEndpoints(root), CreateClientStack and NewProxy
CreatorReturn ==
    /\ tnExit = "none"
    /\ tnPc = Len(Creator(tnCfg)) + 1
    /\ tnList' = FindAllEndpoints(tnNodes, tnRegs["root"])
    /\ tnExit' \in {"created", "error"}
    /\ UNCHANGED <<tnCfg, tnNodes, tnServers, tnRegs, tnPc>>
    /\ UNCHANGED nonTreeVars

----------------------------------------------------------------------------
(* isDomainNameMatched, called on its own *)

\* the longest name that is tried besides the examples
MaxNameLen == 3

\* 'a' and '.'
NameChars == {97, 46}

ShortNames == UNION {[1..n -> NameChars] : n \in 0..MaxNameLen}

\* "example.com"
ExampleCom ==
    <<101, 120, 97, 109, 112, 108, 101, 46, 99, 111, 109>>

\* "*.example.com"
WildcardExampleCom ==
    <<42, 46, 101, 120, 97, 109, 112, 108, 101, 46, 99, 111, 109>>

\* "a.example.com"
AExampleCom ==
    <<97, 46, 101, 120, 97, 109, 112, 108, 101, 46, 99, 111, 109>>

\* "b.a.example.com"
BAExampleCom ==
    <<98, 46, 97, 46, 101, 120, 97, 109, 112, 108, 101, 46, 99, 111, 109>>

\* "abexample.com"
AbExampleCom ==
    <<97, 98, 101, 120, 97, 109, 112, 108, 101, 46, 99, 111, 109>>

MatchCall(pattern, domainName) == [pattern |-> pattern, domainName |-> domainName]

\* the calls that are tried: every short pattern, plain or with "*." in
\* front, on every short name, and the patterns and names of the examples
MatchInputs ==
    {MatchCall(p, n) : p \in ShortNames \cup {WildcardPrefix \o x : x \in ShortNames},
                      n \in ShortNames}
    \cup {MatchCall(p, n) : p \in {ExampleCom, WildcardExampleCom},
                            n \in {ExampleCom, AExampleCom, BAExampleCom,
                                   AbExampleCom}}

NoResult == [returned |-> FALSE, value |-> FALSE]

MatchInit(inputs) == mIn \in inputs /\ mOut = NoResult

\* the call returns
MatchReturn ==
    /\ ~mOut.returned
    /\ mOut' = [returned |-> TRUE,
                value |-> isDomainNameMatched(mIn.pattern, mIn.domainName)]
    /\ UNCHANGED mIn
    /\ UNCHANGED nonMatchVars

----------------------------------------------------------------------------
(* Specifications *)

Overlays == {"MUX", "SIMPLESOCKS"}

vars == <<trojanVars, tlsVars, matchVars, wsVars, trVars, sDone, linkVars, relayVars, keyPairVars, acceptPacketVars, optionVars, contextVars, loadVars, muxVars, treeVars>>

\* the TLS server of the Trojan server's own runs
DefaultTLSConfig ==
    [FallbackPort |-> 80, HTTPResponseFileName |-> "", VerifyHostName |-> TRUE,
     SNI |-> SomeName]

\* no call of isDomainNameMatched on its own
NoMatchCall == {MatchCall(<<>>, <<>>)}

\* a WebSocket server that is not used
DefaultWSConfig == [Enabled |-> FALSE, Path |-> <<>>, Host |-> SomeName,
                    RemoteHost |-> LocalHost, RemotePort |-> 8080]

WSIdle == WSInit({DefaultWSConfig}, {0})

Init ==
    /\ TrojanInit /\ TLSInit({DefaultTLSConfig}) /\ MatchInit(NoMatchCall)
    /\ WSIdle /\ TransportInit /\ LinkIdle /\ RelayIdle /\ KeyPairIdle /\ AcceptPacketIdle /\ OptionIdle /\ ContextIdle /\ LoadIdle /\ MuxIdle /\ TreeIdle

Next ==
    \/ \E c \in Conns : TrojanAccept(c, Requests)
    \/ \E c \in Conns : TrojanHandle(c)
    \/ \E c \in Conns : TrojanDispatch(c)
    \/ \E o \in Overlays : TrojanAcceptConn(o)
    \/ TrojanAcceptPacket

Spec == Init /\ [][Next]_vars

\* the Trojan server with the upper layer reading, writing and closing the
\* connections it accepted
IORequests ==
    { From(AddrA, Request(HashOf("u1"), CRLF, ConnectHeader, CRLF)),
      From(AddrB, Request(HashOf("u1"), CRLF,
                          Header(Associate, IPv4, <<8, 8, 8, 8>>, 53), CRLF)) }

NextIO ==
    \/ \E c \in Conns : TrojanAccept(c, IORequests)
    \/ \E c \in Conns : TrojanHandle(c)
    \/ \E c \in Conns : TrojanDispatch(c)
    \/ \E o \in Overlays : TrojanAcceptConn(o)
    \/ TrojanAcceptPacket
    \/ \E c \in Conns : TrojanRead(c)
    \/ \E c \in Conns : TrojanWrite(c)
    \/ \E c \in Conns : TrojanClose(c)

SpecIO == Init /\ [][NextIO]_vars

\* the Trojan server on well-formed requests whose address is a domain name
\* of 1, 63, 64 and 255 bytes
NameLengths == {1, 63, 64, 255}

LongNameRequests ==
    { From(AddrA, Request(HashOf("u1"), CRLF,
                          Header(cmd, DomainName, Rep(n, 97), 443), CRLF)) :
        cmd \in {Connect, Associate}, n \in NameLengths }

NextLongName ==
    \/ \E c \in Conns : TrojanAccept(c, LongNameRequests)
    \/ \E c \in Conns : TrojanHandle(c)
    \/ \E c \in Conns : TrojanDispatch(c)
    \/ \E o \in Overlays : TrojanAcceptConn(o)
    \/ TrojanAcceptPacket

SpecLongName == Init /\ [][NextLongName]_vars

\* the TLS server with its overlays accepting
TLSOverlays == {"TROJAN", "WEBSOCKET"}

InitTLS ==
    /\ TrojanInit /\ TLSInit(TLSConfigs) /\ MatchInit(NoMatchCall)
    /\ WSIdle /\ TransportInit /\ LinkIdle /\ RelayIdle /\ KeyPairIdle /\ AcceptPacketIdle /\ OptionIdle /\ ContextIdle /\ LoadIdle /\ MuxIdle /\ TreeIdle

NextTLS ==
    \/ \E c \in Conns : TLSAccept(c, TLSClients)
    \/ \E c \in Conns : TLSHandshake(c)
    \/ \E c \in Conns : TLSDemux(c)
    \/ TLSAcceptConnWebSocket
    \/ \E o \in TLSOverlays : TLSAcceptConn(o)

SpecTLS == InitTLS /\ [][NextTLS]_vars

\* isDomainNameMatched called on each of the inputs
InitMatch ==
    /\ TrojanInit /\ TLSInit({DefaultTLSConfig}) /\ MatchInit(MatchInputs)
    /\ WSIdle /\ TransportInit /\ LinkIdle /\ RelayIdle /\ KeyPairIdle /\ AcceptPacketIdle /\ OptionIdle /\ ContextIdle /\ LoadIdle /\ MuxIdle /\ TreeIdle

NextMatch == MatchReturn

SpecMatch == InitMatch /\ [][NextMatch]_vars

\* the WebSocket server on its own: AcceptConn called for one connection
\* after the other, the ServeHTTP tasks, and Close
InitWS ==
    /\ TrojanInit /\ TLSInit({DefaultTLSConfig}) /\ MatchInit(NoMatchCall)
    /\ WSInit(WSConfigs, {0, 9}) /\ TransportInit /\ LinkIdle /\ RelayIdle /\ KeyPairIdle /\ AcceptPacketIdle /\ OptionIdle /\ ContextIdle /\ LoadIdle /\ MuxIdle /\ TreeIdle

NextWS ==
    \/ \E c \in Conns : WSAcceptConn(c, WSClients)
    \/ \E c \in Conns : WSServeHTTP(c)
    \/ \E c \in Conns : WSHandlerStore(c)
    \/ \E c \in Conns : WSHandshakeDone(c)
    \/ \E c \in Conns : WSTimeout(c)
    \/ \E c \in Conns : WSCheck(c)
    \/ \E c \in Conns : WSHandlerReturn(c)
    \/ WSClose

SpecWS == InitWS /\ [][NextWS]_vars

\* the same with the tasks of the server scheduled fairly: a step of
\* AcceptConn or of the Handler that stays possible is taken, and the timer
\* of a select that keeps waiting fires.  Nothing makes a client finish its
\* handshake, and nothing makes anyone call Close.
FairWS ==
    \A c \in Conns :
        /\ WF_vars(WSHandlerStore(c))
        /\ WF_vars(WSHandshakeDone(c))
        /\ WF_vars(WSTimeout(c))
        /\ WF_vars(WSCheck(c))
        /\ WF_vars(WSHandlerReturn(c))

SpecWSFair == InitWS /\ [][NextWS]_vars /\ FairWS

\* the WebSocket server with every timeout NewServer can draw
TimeoutClients == {WSClient(HTTPUpgrade, TRUE), WSClient(HTTPProbe, FALSE)}

InitWSTimeout ==
    /\ TrojanInit /\ TLSInit({DefaultTLSConfig}) /\ MatchInit(NoMatchCall)
    /\ WSInit(WSConfigs, TimeoutDraws) /\ TransportInit /\ LinkIdle /\ RelayIdle /\ KeyPairIdle /\ AcceptPacketIdle /\ OptionIdle /\ ContextIdle /\ LoadIdle /\ MuxIdle /\ TreeIdle

NextWSTimeout ==
    \/ \E c \in Conns : WSAcceptConn(c, TimeoutClients)
    \/ \E c \in Conns : WSServeHTTP(c)
    \/ \E c \in Conns : WSHandlerStore(c)
    \/ \E c \in Conns : WSHandshakeDone(c)
    \/ \E c \in Conns : WSTimeout(c)
    \/ \E c \in Conns : WSCheck(c)
    \/ \E c \in Conns : WSHandlerReturn(c)
    \/ WSClose

SpecWSTimeout == InitWSTimeout /\ [][NextWSTimeout]_vars

\* the transport server on its own
TransportClients == {HTTPUpgrade, HTTPProbe, TrojanStream, LongStream}

TransportOverlays == {"TLS", "WEBSOCKET", "HTTP"}

FlagClients ==
    { Client(HTTPProbe, FALSE, <<>>, <<>>),
      Client(ClientHelloRecord, TRUE, SomeName, HTTPUpgrade) }

InitTransport == Init

NextTransport ==
    \/ \E c \in Conns : TransportAccept(c, TransportClients)
    \/ TransportAcceptError
    \/ \E c \in Conns : TransportHandle(c)
    \/ \E c \in Conns : TransportSend(c)
    \/ TransportAcceptConnHTTP
    \/ \E overlay \in TransportOverlays : TransportAcceptConn(overlay)
    \/ TransportClose

SpecTransport == InitTransport /\ [][NextTransport]_vars

\* the TLS server over the transport server: the TLS accept loop takes the
\* connections AcceptConn of the transport server returns to it
InitFlags == Init

NextFlags ==
    \/ \E c \in Conns : TransportAccept(c, {cl.raw : cl \in FlagClients})
    \/ TransportAcceptError
    \/ \E c \in Conns : TransportHandle(c)
    \/ \E c \in Conns : TransportSend(c)
    \/ TransportAcceptConnHTTP
    \/ \E overlay \in {"TLS", "WEBSOCKET"} : TransportAcceptConn(overlay)
    \/ TransportClose
    \/ \E c \in Conns :
          /\ pGot[c] = <<"TLS">>
          /\ TLSAccept(c, {cl \in FlagClients : cl.raw = pClient[c]})
    \/ \E c \in Conns : TLSHandshake(c)
    \/ \E c \in Conns : TLSDemux(c)
    \/ TLSAcceptConnWebSocket
    \/ \E overlay \in TLSOverlays : TLSAcceptConn(overlay)
    \/ TLSClose

SpecFlags == InitFlags /\ [][NextFlags]_vars

\* shutdown at each channel between two layers.  The tasks of the program
\* are scheduled fairly: a send, a receive or a case of a select that stays
\* possible is taken.  Nothing makes a client send, a connection arrive or
\* a relayed copy end.
InitShutdown ==
    /\ TrojanInit /\ TLSInit({DefaultTLSConfig}) /\ MatchInit(NoMatchCall)
    /\ WSIdle /\ TransportInit /\ LinkInit(Links, 0..ChanCap) /\ RelayIdle /\ KeyPairIdle /\ AcceptPacketIdle /\ OptionIdle /\ ContextIdle /\ LoadIdle /\ MuxIdle /\ TreeIdle

NextShutdown ==
    \/ \E c \in Conns : LinkAccept(c)
    \/ \E c \in Conns : LinkRead(c)
    \/ \E c \in Conns : LinkSend(c)
    \/ \E c \in Conns : LinkSendCancelled(c)
    \/ LinkReceive
    \/ LinkConsumerExit
    \/ LinkProducerExit
    \/ RelayCopyEnds
    \/ RelayCancelled
    \/ ProxyClose

FairShutdown ==
    /\ \A c \in Conns : WF_vars(LinkSend(c)) /\ WF_vars(LinkSendCancelled(c))
    /\ WF_vars(LinkReceive)
    /\ WF_vars(LinkConsumerExit)
    /\ WF_vars(LinkProducerExit)
    /\ WF_vars(RelayCancelled)

SpecShutdown == InitShutdown /\ [][NextShutdown]_vars /\ FairShutdown

\* the handlers of relayConnLoop.  The tasks of the proxy are scheduled
\* fairly; nothing makes a peer send, the sink answer or anyone call Close.
RelayBase == TrojanInit /\ TLSInit({DefaultTLSConfig}) /\ MatchInit(NoMatchCall)

InitRelay ==
    /\ RelayBase
    /\ WSIdle /\ TransportInit /\ LinkIdle /\ RelayInit({"conn"}) /\ KeyPairIdle /\ AcceptPacketIdle /\ OptionIdle /\ ContextIdle /\ LoadIdle /\ MuxIdle /\ TreeIdle

Directions == {"up", "down"}

NextRelay ==
    \/ \E c \in Relayed : RelayAccept(c)
    \/ \E c \in Relayed : RelayDial(c)
    \/ \E c \in Relayed, dir \in Directions : CopyRead(c, dir)
    \/ \E c \in Relayed, dir \in Directions : CopyWrite(c, dir)
    \/ \E c \in Relayed : RelaySelectErr(c)
    \/ \E c \in Relayed : RelaySelectDone(c)
    \/ ProxyClose

\* a step of a task of the proxy: of a handler or of one of its copy tasks
RelayStep ==
    \E c \in Relayed :
        \/ RelaySelectErr(c)
        \/ RelaySelectDone(c)
        \/ \E dir \in Directions : CopyRead(c, dir) \/ CopyWrite(c, dir)

\* while some task of the proxy can take a step, one of them does
FairRelay == WF_vars(RelayStep)

SpecRelay == InitRelay /\ [][NextRelay]_vars /\ FairRelay

\* the handlers of relayPacketLoop
InitRelayPacket ==
    /\ RelayBase
    /\ WSIdle /\ TransportInit /\ LinkIdle /\ RelayInit({"packet"}) /\ KeyPairIdle /\ AcceptPacketIdle /\ OptionIdle /\ ContextIdle /\ LoadIdle /\ MuxIdle /\ TreeIdle

SpecRelayPacket == InitRelayPacket /\ [][NextRelay]_vars

\* the accept loops of relayConnLoop and relayPacketLoop, one of them in a
\* behaviour
InitRelayLoop ==
    /\ RelayBase
    /\ WSIdle /\ TransportInit /\ LinkIdle /\ RelayInit({"conn", "packet"}) /\ KeyPairIdle /\ AcceptPacketIdle /\ OptionIdle /\ ContextIdle /\ LoadIdle /\ MuxIdle /\ TreeIdle

NextRelayLoop ==
    \/ \E c \in Relayed : RelayAccept(c)
    \/ RelayAcceptError
    \/ RelayLoopCheck
    \/ ProxyClose

SpecRelayLoop == InitRelayLoop /\ [][NextRelayLoop]_vars

\* the key pair of the TLS server: the files, checkKeyPairLoop and the
\* GetCertificate calls of the handshakes
InitKeyPair ==
    /\ RelayBase
    /\ WSIdle /\ TransportInit /\ LinkIdle /\ RelayIdle /\ KeyPairInit({"check"})
    /\ AcceptPacketIdle /\ OptionIdle /\ ContextIdle /\ LoadIdle /\ MuxIdle /\ TreeIdle

NextKeyPair ==
    \/ \E which \in {"key", "cert"}, v \in FileVersions : FileWrite(which, v)
    \/ CheckRead
    \/ CheckLoad
    \/ CheckLock
    \/ CheckSwap
    \/ CheckSelect
    \/ KeyPairCancel
    \/ \E c \in Conns : LookupLock(c)
    \/ \E c \in Conns : LookupNames(c)
    \/ \E c \in Conns : LookupReturn(c)

SpecKeyPair == InitKeyPair /\ [][NextKeyPair]_vars

\* the packet loop of Proxy over each server as its source
InitAcceptPacket ==
    /\ RelayBase
    /\ WSIdle /\ TransportInit /\ LinkIdle /\ RelayInit({"packet"}) /\ KeyPairIdle
    /\ AcceptPacketInit(Servers) /\ OptionIdle /\ ContextIdle /\ LoadIdle /\ MuxIdle /\ TreeIdle

NextAcceptPacket ==
    \/ \E c \in Relayed : apSource = "trojan" /\ RelayAccept(c)
    \/ apSource = "trojan" /\ RelayAcceptError
    \/ AcceptPacketCall
    \/ RelayLoopCheck
    \/ ProxyClose

SpecAcceptPacket == InitAcceptPacket /\ [][NextAcceptPacket]_vars

\* main over each command line, the proxy closed while it runs
InitOption ==
    /\ RelayBase
    /\ WSIdle /\ TransportInit /\ LinkIdle /\ RelayIdle /\ KeyPairIdle
    /\ AcceptPacketIdle /\ OptionInit(Flags, {"valid", "invalid"}, BOOLEAN) /\ ContextIdle /\ LoadIdle /\ MuxIdle /\ TreeIdle

NextOption ==
    \/ MainPop
    \/ MainHandle
    \/ mPc = "run" /\ ProxyClose
    \/ RunReturns

SpecOption == InitOption /\ [][NextOption]_vars

\* the shutdown of the pipeline, by the cancel function of the proxy or by
\* Close() of a server, while the accept loop of the TLS server runs
InitContext ==
    /\ RelayBase
    /\ WSIdle /\ TransportInit /\ LinkIdle /\ RelayIdle /\ KeyPairIdle
    /\ AcceptPacketIdle /\ OptionIdle /\ ContextInit(0..NConn) /\ LoadIdle /\ MuxIdle /\ TreeIdle

NextContext ==
    \/ ConnQueued
    \/ ProxyCancel
    \/ \E x \in Pipeline : CancelChild(x)
    \/ \E server \in Pipeline : ServerClose(server)
    \/ CloseStep
    \/ TLSLoopConn
    \/ TLSLoopError
    \/ TLSLoopSelect

SpecContext == InitContext /\ [][NextContext]_vars

\* loadKeyPair over every key file, certificate file and password
InitLoad ==
    /\ RelayBase
    /\ WSIdle /\ TransportInit /\ LinkIdle /\ RelayIdle /\ KeyPairIdle
    /\ AcceptPacketIdle /\ OptionIdle /\ ContextIdle
    /\ LoadInit(KeyFiles, CertFiles, Passwords) /\ MuxIdle /\ TreeIdle

NextLoad == LoadCall

SpecLoad == InitLoad /\ [][NextLoad]_vars

\* the mux server: the worker, the session tasks, AcceptConn and Close, with
\* connChan empty or full at the start
InitMux ==
    /\ RelayBase
    /\ WSIdle /\ TransportInit /\ LinkIdle /\ RelayIdle /\ KeyPairIdle
    /\ AcceptPacketIdle /\ OptionIdle /\ ContextIdle /\ LoadIdle
    /\ MuxInit({0, ChanCap}) /\ TreeIdle

NextMux ==
    \/ \E k \in Carriers : MuxAccept(k)
    \/ MuxWorkerExit
    \/ \E k \in Carriers : MuxAcceptStream(k)
    \/ \E k \in Carriers : MuxAcceptStreamError(k)
    \/ \E k \in Carriers : MuxSend(k)
    \/ \E k \in Carriers : MuxPark(k)
    \/ \E k \in Carriers : MuxSendCancelled(k)
    \/ MuxAcceptConn
    \/ MuxClose

SpecMux == InitMux /\ [][NextMux]_vars

\* a session task that the cancellation woke is scheduled and returns
SpecMuxFair == SpecMux /\ \A k \in Carriers : WF_vars(MuxSendCancelled(k))

\* the server creator, for every configuration of the transport plugin and
\* of shadowsocks
InitTree ==
    /\ RelayBase
    /\ WSIdle /\ TransportInit /\ LinkIdle /\ RelayIdle /\ KeyPairIdle
    /\ AcceptPacketIdle /\ OptionIdle /\ ContextIdle /\ LoadIdle /\ MuxIdle
    /\ TreeInit([plugin : BOOLEAN, shadowsocks : BOOLEAN])

NextTree ==
    \/ CreateRoot
    \/ CreatorBuild
    \/ CreatorFatal
    \/ CreatorAssign
    \/ CreatorReturn

SpecTree == InitTree /\ [][NextTree]_vars

----------------------------------------------------------------------------
(* Properties of the Trojan server *)

\* c is queued on one of the Trojan server's channels
Queued(c) ==
    \/ \E i \in 1..Len(connChan) : connChan[i].conn = c
    \/ \E i \in 1..Len(muxChan) : muxChan[i].conn = c
    \/ \E i \in 1..Len(packetChan) : packetChan[i].conn = c

\* c was never sent on a channel nor returned to an upper layer
NeverDispatched(c) == tSent[c] = <<>> /\ tGot[c] = <<>> /\ ~Queued(c)

\* Auth() has returned an error for c
AuthFailed(c) == tAuth[c].calls > 0 /\ tAuth[c].err # ""

\* Auth() has returned nil for c
AuthSucceeded(c) == tAuth[c].calls > 0 /\ tAuth[c].err = ""

\* C1: whenever Auth() returned an error for a connection, the handler has
\* rewound the connection's rewind wrapper (its cursor is at 0, so that it
\* replays exactly the bytes the client sent) and handed that same wrapper
\* to the redirector with the configured fallback address, once; the
\* connection is on no channel and was returned to no upper layer.
C1_AuthErrorRedirected ==
    \A c \in Conns :
        AuthFailed(c) =>
            /\ tPc[c] = "done"
            /\ tRedir[c] = <<[RedirectTo |-> RedirAddr,
                              InboundConn |-> [kind |-> "rewindConn", conn |-> c],
                              idx |-> 0, buffering |-> FALSE]>>
            /\ tRw[c].idx = 0
            /\ Pending(tRw[c]) = tConn[c].raw
            /\ NeverDispatched(c)

\* a connection whose Auth() failed in each of the ways the claim lists
C1_Witness ==
    /\ \E c \in Conns : tAuth[c].err = "read crlf" /\ Len(tRedir[c]) = 1
    /\ \E c \in Conns : tAuth[c].err \in {"failed to read hash", "invalid hash",
                                          "read header"}
                        /\ Len(tRedir[c]) = 1

\* the bytes of the frame at the head of raw, up to and including the
\* second CRLF, counted by the frame's layout: hash, 2, command, address
\* type, address, port, 2
FrameLen(raw) ==
    HashLen + 2 + 2 +
    (CASE raw[HashLen + 4] = IPv4 -> 4
       [] raw[HashLen + 4] = IPv6 -> 16
       [] OTHER -> 1 + raw[HashLen + 5]) + 2 + 2

\* C2 (as the specification states it): a connection for which Auth()
\* returned nil has 0x0D 0x0A after its 56-byte hash and 0x0D 0x0A after its
\* request header.
C2_CRLFRequired ==
    \A c \in Conns :
        AuthSucceeded(c) =>
            /\ SubSeq(tConn[c].raw, HashLen + 1, HashLen + 2) = CRLF
            /\ SubSeq(tConn[c].raw, FrameLen(tConn[c].raw) - 1,
                      FrameLen(tConn[c].raw)) = CRLF

\* C3: when AddIP returned false in Auth(), Auth() has failed, the connection
\* was redirected with all its bytes still to be replayed and was placed on
\* no channel, and its IP is not in the user's IP set.
C3_IPLimitRefused ==
    \A c \in Conns :
        (tAuth[c].addIP.called /\ ~tAuth[c].addIP.ok) =>
            /\ tAuth[c].err = "ip limit reached"
            /\ Len(tRedir[c]) = 1
            /\ Pending(tRw[c]) = tConn[c].raw
            /\ NeverDispatched(c)
            /\ tAuth[c].addIP.ip \notin userIPs[tIn[c].user]

\* a connection of a user whose one allowed IP is taken by another
\* connection
C3_Witness ==
    \E c \in Conns :
        /\ tAuth[c].addIP.called /\ ~tAuth[c].addIP.ok
        /\ userIPs[tIn[c].user] # {}
        /\ tPc[c] = "done"

AuthSteps == <<"hash", "AuthUser", "AddIP", "crlf", "header", "crlf">>

\* C4: Auth() is called once for every connection the handler has taken,
\* its steps are an initial part of hash, lookup, AddIP, CRLF, header, CRLF,
\* AddIP follows only a lookup that accepted the hash, a connection is sent on
\* a channel only when Auth() returned nil, and what an upper layer reads from
\* a connection it was given starts at the first byte after the frame.
C4_AuthOnceInOrder ==
    \A c \in Conns :
        /\ tAuth[c].calls = (IF tPc[c] \in {"dispatch", "done"} THEN 1 ELSE 0)
        /\ tAuth[c].steps = Take(AuthSteps, Len(tAuth[c].steps))
        /\ tAuth[c].addIP.called <=> Len(tAuth[c].steps) >= 3
        /\ tAuth[c].addIP.called =>
              AuthUser(Take(tConn[c].raw, HashLen)).valid
        /\ (tSent[c] # <<>> \/ tGot[c] # <<>> \/ Queued(c)) =>
              /\ AuthSucceeded(c)
              /\ tAuth[c].steps = AuthSteps
              /\ tIO[c].calls = 0 =>
                    Pending(tRw[c]) = Drop(tConn[c].raw, FrameLen(tConn[c].raw))

\* an upper layer holds a connection whose payload is still to be read
C4_Witness ==
    \E c \in Conns :
        /\ tGot[c] # <<>>
        /\ Pending(tRw[c]) = Payload
        /\ tAuth[c].steps = AuthSteps

\* the channel the claim names for a request header
RouteTable(md) ==
    IF md.Command = Connect /\ md.DomainName = MuxConnName THEN <<"mux">>
    ELSE IF md.Command = Connect THEN <<"conn">>
    ELSE IF md.Command = Associate THEN <<"packet">>
    ELSE IF md.Command = Mux THEN <<"mux">>
    ELSE <<>>

\* C5: a connection whose handler has finished after a successful Auth() was
\* sent on exactly the channel of its command (none for an unknown command),
\* a packet-channel entry is a PacketConn, and a connection was returned by
\* AcceptConn to a mux overlay only from the mux channel, by AcceptConn to
\* another overlay only from the TCP channel, and by AcceptPacket only from
\* the packet channel.
C5_RoutedByCommand ==
    \A c \in Conns :
        /\ (AuthSucceeded(c) /\ tPc[c] = "done") =>
              tSent[c] = RouteTable(tIn[c].metadata)
        /\ \A i \in 1..Len(packetChan) : packetChan[i].kind = "PacketConn"
        /\ \A i \in 1..Len(connChan) : connChan[i].kind = "InboundConn"
        /\ \A i \in 1..Len(muxChan) : muxChan[i].kind = "InboundConn"
        /\ Len(tGot[c]) <= 1
        /\ \A i \in 1..Len(tGot[c]) :
              /\ tSent[c] = <<"mux">> <=>
                    (tGot[c][i].by = "AcceptConn" /\ tGot[c][i].overlay = "MUX")
              /\ tSent[c] = <<"conn">> <=>
                    (tGot[c][i].by = "AcceptConn" /\ tGot[c][i].overlay # "MUX")
              /\ tSent[c] = <<"packet">> <=>
                    (tGot[c][i].by = "AcceptPacket" /\ tGot[c][i].kind = "PacketConn")

\* a CONNECT to "MUX_CONN" returned to the mux overlay, and a connection with
\* an unknown command dropped
C5_Witness ==
    /\ \E c \in Conns :
          /\ tIn[c].metadata.Command = Connect
          /\ tIn[c].metadata.DomainName = MuxConnName
          /\ tGot[c] # <<>>
    /\ \E c \in Conns :
          /\ AuthSucceeded(c) /\ tPc[c] = "done"
          /\ tIn[c].metadata.Command \notin {Connect, Associate, Mux}

\* the bytes the connections of user u wrote and read below the InboundConn
RECURSIVE WrittenBy(_, _)
WrittenBy(u, S) ==
    IF S = {} THEN 0
    ELSE LET c == CHOOSE x \in S : TRUE
         IN  (IF tIn[c].user = u THEN tIO[c].written ELSE 0) + WrittenBy(u, S \ {c})

RECURSIVE ReadBy(_, _)
ReadBy(u, S) ==
    IF S = {} THEN 0
    ELSE LET c == CHOOSE x \in S : TRUE
         IN  (IF tIn[c].user = u THEN tIO[c].read ELSE 0) + ReadBy(u, S \ {c})

\* the counters of every InboundConn and of every user agree with what the
\* connections below returned
CountersAgree ==
    /\ \A c \in Conns : tIn[c].sent = tIO[c].written /\ tIn[c].recv = tIO[c].read
    /\ \A u \in Users : /\ userTraffic[u].sent = WrittenBy(u, Conns)
                        /\ userTraffic[u].recv = ReadBy(u, Conns)

\* a step reports to AddTraffic what the call below returned, and lowers no
\* counter
CountersStep ==
    \A c \in Conns :
        /\ tIn'[c].sent >= tIn[c].sent
        /\ tIn'[c].recv >= tIn[c].recv
        /\ tIO'[c].calls # tIO[c].calls =>
              tIO'[c].last = <<tIO'[c].written - tIO[c].written,
                               tIO'[c].read - tIO[c].read>>

\* C6: at all times the sent counter of an InboundConn is the number of bytes
\* the Write calls of the connection below returned and its recv counter the
\* number of bytes the Read calls below returned; every Read and Write call
\* passes exactly the count it got to AddTraffic, written bytes first and read
\* bytes second; no counter decreases.
C6_CountersMatchIO == [](CountersAgree) /\ [][CountersStep]_vars

\* a connection that has read bytes and written fewer bytes than it was
\* asked to
C6_Witness ==
    \E c \in Conns :
        /\ tIO[c].read = 2 /\ tIn[c].recv = 2
        /\ tIO[c].written = 1 /\ tIn[c].sent = 1
        /\ tIO[c].calls = 2

\* C7: a closed InboundConn has called DelIP once, with the IP Auth() passed
\* to AddIP, and the connection below it is closed.
C7_CloseReleasesIP ==
    \A c \in Conns :
        tIO[c].closes > 0 =>
            /\ tAuth[c].addIP.called /\ tAuth[c].addIP.ok
            /\ tIO[c].delIP = <<tAuth[c].addIP.ip>>
            /\ tAuth[c].addIP.ip # NoIP
            /\ tConn[c].closed

\* a closed connection from 10.0.0.2
C7_Witness ==
    \E c \in Conns :
        tIO[c].closes = 1 /\ tIO[c].delIP = <<"10.0.0.2">> /\ tConn[c].closed

----------------------------------------------------------------------------
(* Properties of the TLS server *)

\* c is queued on one of the TLS server's channels
TLSQueued(c) ==
    \/ \E i \in 1..Len(tlsConnChan) : tlsConnChan[i] = c
    \/ \E i \in 1..Len(wsChan) : wsChan[i] = c

\* the client of c sent a first record that is no TLS handshake
NotTLSClient(c) == sClient[c].raw # <<>> /\ ~LooksLikeTLS(sClient[c].raw)

\* what the claim allows after the rewind, for each configuration
FallbackTable(s) ==
    IF s.fallbackAddress # NilAddress
    THEN <<[op |-> "Redirect", conn |-> "handshakeRewindConn",
            to |-> s.fallbackAddress, idx |-> 0]>>
    ELSE IF ~s.httpResp.isNil
    THEN <<[op |-> "Write", conn |-> "handshakeRewindConn",
            bytes |-> s.httpResp.bytes],
           [op |-> "Close", conn |-> "handshakeRewindConn"]>>
    ELSE <<[op |-> "Close", conn |-> "handshakeRewindConn"]>>

\* C8: a connection whose first record did not look like a TLS handshake was
\* rewound, so that it replays what the client sent, and then either
\* redirected to the fallback address, when there is one, or else written the
\* static response and closed, when there is one, or else closed; it is on
\* no channel and was returned to no overlay.
C8_NotTLSFallback ==
    \A c \in Conns :
        (sPc[c] = "done" /\ NotTLSClient(c)) =>
            /\ sLog[c] = <<[op |-> "Rewind", conn |-> "handshakeRewindConn"]>>
                         \o FallbackTable(tlsServer)
            /\ sHs[c].idx = 0
            /\ Pending(sHs[c]) = sClient[c].raw
            /\ ~TLSQueued(c)
            /\ sGot[c] = <<>>

\* a plain HTTP probe answered with the static response
C8_Witness ==
    \E c \in Conns :
        /\ sPc[c] = "done"
        /\ sClient[c].raw = HTTPProbe
        /\ Len(sLog[c]) = 3
        /\ sLog[c][2].op = "Write"

\* C9 (as the specification states it): a connection whose handshake failed
\* although its first record looked like a TLS handshake, or because the
\* client sent nothing, was closed and nothing else: not rewound, not
\* redirected, not written to, on no channel.
C9_OtherErrorsClose ==
    \A c \in Conns :
        (sPc[c] = "done" /\ sErr[c] # <<>> /\ ~NotTLSClient(c)) =>
            /\ sLog[c] = <<[op |-> "Close", conn |-> "tlsConn"]>>
            /\ ~TLSQueued(c)
            /\ sGot[c] = <<>>

\* http.ReadRequest accepts the stream
ParsesAsHTTP(plain) == HeadOK(plain, IndexFrom(plain, CRLF, 1))

\* the one thing the handler did with c after the handshake
Dest(c) == sLog[c][1]

\* after a handshake that succeeded the handler did one thing with the
\* connection, rewound to 0 and replaying the whole decrypted stream, and an
\* overlay got it only from the channel of its kind
DemuxOnce ==
    \A c \in Conns :
        (sPc[c] = "done" /\ sErr[c] = <<>>) =>
            /\ Len(sLog[c]) = 1
            /\ Dest(c).op \in {"connChan", "wsChan", "Redirect"}
            /\ Dest(c).conn = "rewindConn"
            /\ Dest(c).idx = 0
            /\ sRw[c].idx = 0
            /\ Pending(sRw[c]) = sClient[c].plain
            /\ Dest(c).op = "connChan" <=> ~ParsesAsHTTP(sClient[c].plain)
            /\ Dest(c).op = "wsChan" => nextHTTP = 1
            /\ Dest(c).op = "Redirect" => Dest(c).to = tlsServer.fallbackAddress
            /\ Len(sGot[c]) + (IF TLSQueued(c) THEN 1 ELSE 0) <= 1
            /\ (sGot[c] # <<>> \/ TLSQueued(c)) => Dest(c).op # "Redirect"
            /\ \A i \in 1..Len(sGot[c]) :
                  /\ sGot[c][i].chan = Dest(c).op
                  /\ sGot[c][i].chan = "wsChan" <=> sGot[c][i].overlay = "WEBSOCKET"

\* the step that disposes of a connection after the handshake chooses by
\* next_http as it is at that moment
DemuxStep ==
    \A c \in Conns :
        (sPc[c] = "http" /\ sPc'[c] = "done" /\ ParsesAsHTTP(sClient[c].plain)) =>
            sLog'[c][1].op = (IF nextHTTP = 1 THEN "wsChan" ELSE "Redirect")

\* C10: after a successful handshake the decrypted stream, rewound to offset
\* 0, goes to exactly one destination: the Trojan channel when it is no HTTP
\* request, the WebSocket channel when it is one and next_http is 1, the
\* redirector with the fallback address when it is one and next_http is not
\* 1; AcceptConn returns WebSocket-channel connections only to a WebSocket
\* overlay and Trojan-channel connections only to other overlays.
C10_DemuxAfterHandshake == [](DemuxOnce) /\ [][DemuxStep]_vars

\* one HTTP request went to the WebSocket overlay, another, earlier one to the
\* redirector
C10_Witness ==
    /\ \E c \in Conns : sGot[c] = <<[overlay |-> "WEBSOCKET", chan |-> "wsChan"]>>
    /\ \E c \in Conns : sPc[c] = "done" /\ sErr[c] = <<>> /\ Dest(c).op = "Redirect"

----------------------------------------------------------------------------
(* Properties of the name matching *)

\* the pattern begins with "*."
IsWildcard(pattern) == HasPrefix(pattern, WildcardPrefix)

\* the rule of the specification: a name matches "*." + S when it is a
\* label, not empty and without a dot, followed by "." + S
MatchRule(pattern, name) ==
    IF IsWildcard(pattern)
    THEN /\ HasSuffix(name, Drop(pattern, 1))
         /\ Len(name) - Len(Drop(pattern, 1)) >= 1
         /\ ~Contains(Take(name, Len(name) - Len(Drop(pattern, 1))), Dot)
    ELSE pattern = name

\* the four results the specification lists
MatchExamples ==
    /\ (mIn = MatchCall(WildcardExampleCom, AExampleCom)) => mOut.value
    /\ (mIn = MatchCall(WildcardExampleCom, ExampleCom)) => ~mOut.value
    /\ (mIn = MatchCall(WildcardExampleCom, BAExampleCom)) => ~mOut.value
    /\ (mIn = MatchCall(ExampleCom, ExampleCom)) => mOut.value

----------------------------------------------------------------------------
(* Properties of the certificate selection *)

\* the handshake of c got as far as the ClientHello, so that GetCertificate
\* was called with the name the client asked for
HelloReached(c) ==
    /\ sPc[c] \notin {"none", "handshake"}
    /\ LooksLikeTLS(sClient[c].raw)
    /\ sClient[c].hello.versionOK

\* the name matches the configured sni, or the common name of the
\* certificate when no sni is configured, or one of the certificate's
\* alternative names
NameMatched(s, name) ==
    \/ s.sni # <<>> /\ isDomainNameMatched(s.sni, name)
    \/ s.sni = <<>> /\ isDomainNameMatched(s.keyPair.CommonName, name)
    \/ \E i \in 1..Len(s.keyPair.DNSNames) :
          isDomainNameMatched(s.keyPair.DNSNames[i], name)

\* C13: the handshake of a ClientHello is rejected, with an error that
\* carries the requested name, iff verify_sni is on and the requested name
\* matches neither the configured sni (the common name when sni is empty)
\* nor an alternative name of the certificate; in every other case the key
\* pair is returned and the handshake completes.
C13_RejectIffMismatch ==
    \A c \in Conns :
        HelloReached(c) =>
            IF tlsServer.verifySNI
               /\ ~NameMatched(tlsServer, sClient[c].hello.ServerName)
            THEN /\ HasPrefix(sErr[c], SNIMismatched \o sClient[c].hello.ServerName)
                 /\ sPc[c] = "done"
            ELSE sErr[c] = <<>>

\* with verify_sni on, a client asking for a name of no pattern was
\* rejected and a client asking for a name of the alternative names only
\* was not
C13_Witness ==
    /\ tlsServer.verifySNI
    /\ \E c, d \in Conns :
          /\ HelloReached(c) /\ HelloReached(d)
          /\ sClient[c].hello.ServerName = NameB /\ sErr[c] # <<>>
          /\ sClient[d].hello.ServerName = NameXA /\ sErr[d] = <<>>

----------------------------------------------------------------------------
(* Properties of the WebSocket server *)

\* AcceptConn returned an error and no connection for c
WSReturnedError(c) ==
    /\ wPc[c] = "returned"
    /\ wRet[c] \in {"websocket is disabled", "not a valid http request",
                    "not a valid websocket handshake request",
                    "failed to create websocket config",
                    "websocket failed to handshake"}

\* the one Redirection of connection conn of c, that replays all the client
\* sent, to addr
RedirectedWhole(c, conn, addr) ==
    wLog[c] = <<[op |-> "Redirect", conn |-> conn, to |-> addr, idx |-> 0,
                 buffering |-> FALSE, pending |-> wClient[c].raw]>>

\* C14: when WebSocket is disabled, every connection AcceptConn takes from
\* the underlay is handed at once to the redirector with the fallback
\* address, and AcceptConn returns an error and no connection.
C14_DisabledRedirects ==
    \A c \in Conns :
        (~wsServer.enabled /\ wPc[c] # "none") =>
            /\ RedirectedWhole(c, "conn", wsServer.redirAddr)
            /\ wsServer.redirAddr = [host |-> LocalHost, port |-> 8080]
            /\ WSReturnedError(c)
            /\ wRet[c] = "websocket is disabled"
            /\ wGo[c] = "none"

\* a disabled server redirected a websocket upgrade request
C14_Witness ==
    /\ ~wsServer.enabled
    /\ \E c \in Conns :
          /\ wClient[c].raw = HTTPUpgrade
          /\ wPc[c] = "returned"
          /\ Len(wLog[c]) = 1 /\ wLog[c][1].op = "Redirect"

\* the requests of the clients that are HTTP requests with an Upgrade
\* header of value "websocket" in any case and the path "/ws"
UpgradeRequests == {HTTPUpgrade, HTTPUpgradeMixed, HTTPUpgradeQuery}

\* C15: when WebSocket is enabled, AcceptConn returns an upgraded
\* connection only for a request that parses as HTTP, has an Upgrade header
\* equal to "websocket" without regard to case and whose path is the
\* configured path; such a request is not redirected; every other request
\* is rewound and handed to the redirector with the fallback address, and
\* AcceptConn returns an error.
C15_UpgradeOrRedirect ==
    \A c \in Conns :
        (wsServer.enabled /\ wPc[c] # "none") =>
            IF wClient[c].raw \in UpgradeRequests /\ wsServer.path = WSPath
            THEN /\ \A i \in 1..Len(wLog[c]) : wLog[c][i].op # "Redirect"
                 /\ wRet[c] = "InboundConn" => wsConn[c]
            ELSE /\ RedirectedWhole(c, "rewindConn", wsServer.redirAddr)
                 /\ WSReturnedError(c)
                 /\ wRet[c] \in {"not a valid http request",
                                 "not a valid websocket handshake request"}
                 /\ wGo[c] = "none"

\* an upgrade request in mixed case was upgraded and a request for another
\* path was redirected
C15_Witness ==
    /\ wsServer.enabled
    /\ \E c, d \in Conns :
          /\ wClient[c].raw = HTTPUpgradeMixed /\ wRet[c] = "InboundConn"
          /\ wClient[d].raw = HTTPUpgradeOtherPath /\ wPc[d] = "returned"
          /\ Len(wLog[d]) = 1

\* C16: when the upgrade of c had not completed as the timer fired (the
\* ServeHTTP task was still in the handshake, or had given it up),
\* AcceptConn returns the handshake error and no connection and has
\* cancelled the context of the attempt.
C16_TimeoutAbandons ==
    \A c \in Conns :
        (wFired[c] \in {"handshaking", "returned"} /\ wPc[c] = "returned") =>
            /\ wRet[c] = "websocket failed to handshake"
            /\ wCtx[c] = "cancelled"

\* C17: the timeout is a whole number of seconds from 5 to 14, and no
\* operation changes it.
C17_TimeoutFixed ==
    /\ [](wsServer.timeout \in {Second * k : k \in 5..14})
    /\ [][wsServer.timeout' = wsServer.timeout]_vars

\* a server of timeout 14 s on which AcceptConn timed out and which was
\* closed
C17_Witness ==
    /\ wsServer.timeout = 14 * Second
    /\ wsServer.done
    /\ \E c \in Conns : wFired[c] # "no" /\ wPc[c] = "returned"

----------------------------------------------------------------------------
(* Properties of the transport server and of the flags *)

\* the number of places of the sequence ch that hold c
Occurrences(ch, c) == Cardinality({i \in 1..Len(ch) : ch[i] = c})

\* the clients of the transport server that send an HTTP request
PlainHTTPRequests == {HTTPUpgrade, HTTPProbe}

\* what the handler of the transport server has made of each connection
TransportRouted ==
    \A c \in Conns :
        pPc[c] \in {"send", "sent"} =>
            /\ Pending(pRw[c]) = pClient[c]
            /\ IF pSaw[c]
               THEN /\ pConn[c] = "rewindConn"
                    /\ pRw[c].idx = 0 /\ ~pRw[c].buffering
                    /\ pDest[c] = IF pClient[c] \in PlainHTTPRequests
                                  THEN "wsChan" ELSE "connChan"
               ELSE /\ pConn[c] = "tcpConn"
                    /\ pRw[c].buf = <<>>
                    /\ pDest[c] = "connChan"

\* each connection is on its channel, or was received from it, once its
\* handler has sent it, and is nowhere else and nowhere before
TransportDeliveredOnce ==
    \A c \in Conns :
        /\ Occurrences(trConnChan, c) + Occurrences(trWsChan, c) + Len(pGot[c])
              = IF pPc[c] = "sent" THEN 1 ELSE 0
        /\ Occurrences(trWsChan, c) = 1 => pDest[c] = "wsChan"
        /\ Occurrences(trConnChan, c) = 1 => pDest[c] = "connChan"
        /\ \A i \in 1..Len(pGot[c]) :
              pGot[c][i] \in HTTPOverlays <=> pDest[c] = "wsChan"

\* the handler goes by the registration as it is when it looks
TransportLooksOnce ==
    \A c \in Conns :
        (pPc[c] = "handler" /\ pPc'[c] = "send") => pSaw'[c] = trServer.nextHTTP

\* C18: a TCP connection whose handler found a plaintext HTTP upstream
\* registered is handed on as the rewound wrapper, replaying all the client
\* sent, on the WebSocket channel when its bytes are an HTTP request and on
\* the Trojan channel otherwise; one whose handler found none is handed on
\* raw on the Trojan channel; each connection is delivered to one channel,
\* once.
C18_TransportRouting ==
    /\ [](TransportRouted /\ TransportDeliveredOnce)
    /\ [][TransportLooksOnce]_vars

\* an HTTP request reached the WebSocket overlay through wsChan and an
\* earlier one went raw to connChan
C18_Witness ==
    \E c, d \in Conns :
        /\ pClient[c] = HTTPUpgrade /\ pSaw[c] /\ pGot[c] = <<"WEBSOCKET">>
        /\ pClient[d] = HTTPUpgrade /\ ~pSaw[d] /\ pPc[d] = "sent"

\* only the entry of AcceptConn of a WebSocket overlay changes next_http
\* of the TLS server, and it sets it
TLSFlagStep ==
    nextHTTP' # nextHTTP =>
        /\ nextHTTP = 0 /\ nextHTTP' = 1
        /\ UNCHANGED <<sPc, sClient, sHs, sRw, sErr, sLog, sGot, tlsConnChan,
                       wsChan, tlsServer, sDone>>

\* only the entry of AcceptConn of a WebSocket or HTTP overlay changes
\* nextHTTP of the transport server, and it sets it
TransportFlagStep ==
    trServer'.nextHTTP # trServer.nextHTTP =>
        /\ ~trServer.nextHTTP /\ trServer'.nextHTTP
        /\ trServer'.done = trServer.done
        /\ UNCHANGED <<trLoop, pPc, pClient, pRw, pConn, pDest, pSaw,
                       trConnChan, trWsChan, pGot>>

\* C11: next_http of the TLS server and nextHTTP of the transport server
\* start unset, are set by the entry of AcceptConn of a WebSocket (or HTTP)
\* overlay, and are cleared by no operation, Close included.
C11_FlagsMonotonic ==
    /\ nextHTTP = 0 /\ ~trServer.nextHTTP
    /\ [](nextHTTP \in {0, 1})
    /\ [][TLSFlagStep /\ TransportFlagStep]_vars

\* both flags are set and both servers were closed
C11_Witness ==
    /\ nextHTTP = 1 /\ trServer.nextHTTP
    /\ sDone /\ trServer.done
    /\ \E c \in Conns : sPc[c] = "done"

----------------------------------------------------------------------------
(* Properties of the shutdown *)

\* a handler is alive, holding the connection it was started for
HandlerAlive(c) == hPc[c] \in {"reading", "sending"}

\* C19: once Proxy.Close was called, eventually both accept loops at the
\* channel have returned, no relay handler is running, and no handler is
\* alive holding its connection.
C19_ShutdownTerminates ==
    lDone ~> /\ lLoop.producer = "returned"
             /\ lLoop.consumer = "returned"
             /\ relays = 0
             /\ \A c \in Conns : ~HandlerAlive(c)

\* C20: once the context is cancelled, a handler that is at the send on the
\* channel between two layers does not stay there for ever.
C20_NoSendBlockedForever ==
    \A c \in Conns : (lDone /\ hPc[c] = "sending") ~> (hPc[c] # "sending")

----------------------------------------------------------------------------
(* Properties of the Handler of the WebSocket server *)

\* the Handler of c was called and has not returned
HandlerPending(c) == wGo[c] \in {"handler", "sending", "waiting"}

\* C21: once the context of the attempt is done (cancelled by AcceptConn, or
\* through the context of the server), a Handler that was called eventually
\* returns.
C21_HandlerReleased ==
    \A c \in Conns : (HandlerPending(c) /\ WSCtxDone(c)) ~> (wGo[c] = "returned")

----------------------------------------------------------------------------
(* Properties of the channels between the layers *)

\* a handler waits at the send because the channel is full
ProducerBlocked == chLen = ChanCap /\ \E c \in Conns : hPc[c] = "sending"

\* the accept loop of the producer takes a connection from its underlay
TakesConnection == \E c \in Conns : hPc[c] = "none" /\ hPc'[c] # "none"

\* C22: the channel never holds more than 32 connections and loses none,
\* and while it is full with a handler waiting at the send, the accept loop
\* of the producing layer takes no further connection from its underlay.
C22_BackpressureReachesAccept ==
    [][ /\ chLen' \in 0..ChanCap
        /\ chLen' \in {chLen - 1, chLen, chLen + 1}
        /\ ProducerBlocked => ~TakesConnection ]_vars

\* the part of C22 about the channel alone
ChannelBounded == [][chLen' \in 0..ChanCap /\ chLen' \in {chLen - 1, chLen, chLen + 1}]_vars

----------------------------------------------------------------------------
(* Properties of the relay handlers *)

\* the copy tasks of c have ended, or were never started
CopyEnded(c) == \A dir \in Directions : rCopy[c][dir].pc \in {"none", "done"}

\* the handler of c dialed once, with the address of inbound's metadata
DialedOnce(c) == rDials[c] = <<rIn[c].addr>>

\* the handler of c returned because the dial failed
DialFailed(c) == rPc[c] = "returned" /\ rGot[c] = "none"

\* the handler of c returned from its select
Relayed_Returned(c) == rPc[c] = "returned" /\ rGot[c] # "none"

\* what holds of the handler of c in every state
RelayConnSafe(c) ==
    /\ rPc[c] \in {"none", "dial"} => rDials[c] = <<>>
    /\ rPc[c] \in {"select", "returned"} => DialedOnce(c)
    /\ DialFailed(c) =>
          /\ rIn[c].closed
          /\ rCopy[c] = NoCopy
          /\ rIn[c].dst = <<>> /\ rOut[c] = NoRelayConn
    /\ rPc[c] = "select" =>
          /\ \A dir \in Directions : rCopy[c][dir].pc # "none"
          /\ ~rIn[c].closed /\ ~rOut[c].closed
    /\ Relayed_Returned(c) =>
          /\ rIn[c].closed /\ rOut[c].closed
          /\ rGot[c] = "ctx" => lDone
          /\ rGot[c] \in {"nil", "err"} => \E dir \in Directions : rCopy[c][dir].pc = "done"

\* C23: the handler of an inbound connection dials the sink exactly once,
\* with the address of the inbound's metadata; when the dial fails, inbound
\* is closed and nothing is copied; otherwise two copy tasks run, and once
\* one of them has finished or the context is cancelled the handler returns
\* with inbound and outbound closed, and both copy tasks end.
C23_RelayConn ==
    /\ [](\A c \in Relayed : RelayConnSafe(c))
    /\ \A c \in Relayed :
          /\ (rPc[c] = "select" /\ (rErrChan[c] # <<>> \/ lDone)) ~> Relayed_Returned(c)
          /\ (rPc[c] = "returned") ~> CopyEnded(c)

\* a copy task finished first after copying something, and the handler
\* returned with both connections closed and both tasks ended
C23_Witness ==
    \E c \in Relayed :
        /\ Relayed_Returned(c) /\ rGot[c] = "nil"
        /\ rOut[c].dst # <<>>
        /\ rIn[c].closed /\ rOut[c].closed
        /\ CopyEnded(c)
        /\ ~lDone

----------------------------------------------------------------------------
(* Properties of the relay loops *)

\* the errors among the messages of a log
RECURSIVE ErrorsOf(_)
ErrorsOf(log) ==
    IF log = <<>> THEN <<>>
    ELSE IF log[1].level = "error" THEN <<log[1]>> \o ErrorsOf(Tail(log))
    ELSE ErrorsOf(Tail(log))

\* C24: after an accept error the relay loop returns, logging no error, when
\* the context of the proxy is cancelled, and it logs the error and accepts
\* again when it is not; the loop returns only when the context is
\* cancelled, and a loop that returned stays so.
C24_AcceptErrors ==
    [][ /\ (rLoop = "failed" /\ rLoop' # "failed") =>
              IF lDone
              THEN rLoop' = "returned" /\ ErrorsOf(rLog') = ErrorsOf(rLog)
              ELSE /\ rLoop' = "accepting"
                   /\ ErrorsOf(rLog') = Append(ErrorsOf(rLog), LogAcceptFailed(rKind))
        /\ rLoop' = "returned" => lDone'
        /\ rLoop = "returned" => rLoop' = "returned"
        /\ rLoop # "failed" => rLog' = rLog ]_vars

\* the packet loop logged an accept error, took an inbound, and returned on
\* an accept error after the cancellation
C24_Witness ==
    /\ rKind = "packet"
    /\ rLoop = "returned"
    /\ Len(ErrorsOf(rLog)) = 1
    /\ Len(rLog) = 2
    /\ rPc[1] = "dial"

----------------------------------------------------------------------------
(* Properties of the packet relay *)

\* the connections a copy task of direction dir reads from and writes to
ReadSide(c, dir) == IF ReadsInbound(dir) THEN rIn[c] ELSE rOut[c]
WriteSide(c, dir) == IF ReadsInbound(dir) THEN rOut[c] ELSE rIn[c]

\* the datagrams among what was read: those with a payload
RECURSIVE Datagrams(_)
Datagrams(items) ==
    IF items = <<>> THEN <<>>
    ELSE IF items[1].kind = "data" /\ items[1].len > 0
         THEN <<items[1]>> \o Datagrams(Tail(items))
         ELSE Datagrams(Tail(items))

\* the last read of a direction was one that ends it
EndingRead(items) ==
    /\ items # <<>>
    /\ items[Len(items)].kind = "err" \/ items[Len(items)].len = 0

\* every datagram read was written once, unchanged and in order, but for the
\* one that is being written or whose write failed
RelayedInOrder(c, dir) ==
    /\ \A i \in 1..Len(ReadSide(c, dir).rd) : ReadSide(c, dir).rd[i].len <= MaxPacketSize
    /\ rCopy[c][dir].pc \in {"none", "reading"} =>
          WriteSide(c, dir).dst = Datagrams(ReadSide(c, dir).rd)
    /\ rCopy[c][dir].pc = "writing" =>
          Append(WriteSide(c, dir).dst, rCopy[c][dir].hold) = Datagrams(ReadSide(c, dir).rd)
    /\ rCopy[c][dir].pc = "done" =>
          \/ WriteSide(c, dir).dst = Datagrams(ReadSide(c, dir).rd)
          \/ /\ Datagrams(ReadSide(c, dir).rd) # <<>>
             /\ WriteSide(c, dir).dst =
                   SubSeq(Datagrams(ReadSide(c, dir).rd), 1,
                          Len(Datagrams(ReadSide(c, dir).rd)) - 1)
             /\ ~EndingRead(ReadSide(c, dir).rd)

\* a read of length 0 or a failed read ends the direction, and the handler,
\* once a direction has ended, has a value to receive and returns closing
\* both connections
RelayedEnds(c) ==
    /\ \A dir \in Directions :
          EndingRead(ReadSide(c, dir).rd) => rCopy[c][dir].pc = "done"
    /\ (rPc[c] = "select" /\ \E dir \in Directions : rCopy[c][dir].pc = "done") =>
          rErrChan[c] # <<>>
    /\ Relayed_Returned(c) => rIn[c].closed /\ rOut[c].closed
    /\ DialFailed(c) => rIn[c].closed /\ rCopy[c] = NoCopy

\* C25: in the packet relay every datagram of at most MaxPacketSize bytes
\* that was read from one side is written once to the other side, with the
\* same payload and metadata and in the order of the reads (the last one
\* read may be the one a failed write lost); a read of length 0 and a read
\* or write error end the direction, and the handler then returns with both
\* packet connections closed.
C25_PacketRelay ==
    \A c \in Relayed :
        /\ RelayedEnds(c)
        /\ \A dir \in Directions : RelayedInOrder(c, dir)

\* two datagrams, of 100 and of MaxPacketSize bytes with different metadata,
\* were relayed in order, a read of length 0 ended the direction, and the
\* handler returned with both connections closed
C25_Witness ==
    \E c \in Relayed :
        /\ rKind = "packet"
        /\ rOut[c].dst = <<Item("data", 1, 100, "a:53"),
                           Item("data", 2, MaxPacketSize, "b:53")>>
        /\ Len(rIn[c].rd) = 3
        /\ rCopy[c]["up"].pc = "done"
        /\ Relayed_Returned(c) /\ rGot[c] = "nil"
        /\ rIn[c].closed /\ rOut[c].closed

----------------------------------------------------------------------------
(* Properties of the key pair *)

\* the slot is assigned
Swapped == kLoop.pc = "swap" /\ kLoop'.pc # "swap"

\* the GetCertificate call of c returns
Returns(c) == kLook[c].pc = "return" /\ kLook'[c].pc = "done"

\* C26: the slot changes only in the assignment of the loop, made with the
\* write lock held and no reader inside, to a pair that loadKeyPair returned
\* without error for files whose bytes differ from the last ones; a
\* GetCertificate call returns the pair that is in the slot when it returns,
\* the one whose names it read; a pass of the loop whose load fails does not
\* assign.
C26_KeyPairSwap ==
    [][ /\ kSlot' # kSlot => Swapped
        /\ Swapped =>
              /\ kLock.writer /\ kLock.readers = {}
              /\ kSlot' = kLoop.keyPair /\ kSlot'.key = kSlot'.cert /\ kSlot' # NoPair
              /\ Changed(kLoop)
        /\ \A c \in Conns : Returns(c) =>
              /\ kLook'[c].ret = kSlot
              /\ kLook'[c].names = kLook'[c].ret.leaf
              /\ kSlot' = kSlot
        /\ (kLoop.pc = "compare" /\ loadKeyPair(kFiles).err) => kLoop'.pc # "lock" ]_vars

\* the loop swapped in the pair of the new files; one handshake got the old
\* pair before and another the new pair after
C26_Witness ==
    /\ kSlot = Pair(2, 2)
    /\ \E c, d \in Conns :
          /\ kLook[c].pc = "done" /\ kLook[c].ret = Pair(1, 1)
          /\ kLook[d].pc = "done" /\ kLook[d].ret = Pair(2, 2)

----------------------------------------------------------------------------
(* Properties of AcceptPacket *)

\* C27: AcceptPacket of a server that relays no datagrams returns an error
\* to its caller, and the task that called it goes on.
C27_UnsupportedIsError ==
    apSource \in NoPacketServers =>
        /\ apResult \in {"none", "error"}
        /\ rLoop # "panicked"

\* the part of C27 that holds: the WebSocket server returns an error
WebSocketReturnsError ==
    apSource = "websocket" => apResult \in {"none", "error"} /\ rLoop # "panicked"


----------------------------------------------------------------------------
(* Properties of main *)

\* the process ended after Run was entered and the proxy was closed
CleanShutdown == mPc = "exited" /\ lDone

\* C28: the process ends with exit code 0 only after the context of the
\* proxy was cancelled; after the clean shutdown of a proxy built from a
\* valid configuration the exit code is 0; the exit code is not 0 only when
\* no proxy could be built from the command line.
C28_ExitCodes ==
    /\ (mPc = "exited" /\ exitCode = 0) => lDone
    /\ CleanShutdown => exitCode = 0
    /\ (mPc = "exited" /\ exitCode # 0) => ~lDone

\* the part of C28 that holds: Run returns only after the cancellation, and
\* the handlers of -server and of -stdin-format end with exit code 0
RunReturnsAfterCancel ==
    /\ (mPc = "exited" /\ exitCode = 0) => lDone
    /\ (CleanShutdown /\ mHandler # "PROXY") => exitCode = 0

----------------------------------------------------------------------------
(* Properties of the accept task over the WebSocket server *)

\* the upgrade of c is not finished: AcceptConn, called by the accept task
\* of the Trojan server, waits in its select for the Handler of c
Stalled(c) == wPc[c] = "select" /\ wGo[c] = "handshaking"

\* the accept task can take connection d from the WebSocket server
CanTake(d) == ENABLED WSAcceptConn(d, WSClients)

\* C29: while the upgrade of one connection is not finished, the accept task
\* of the Trojan server can take every other connection that waits.
C29_StallLeavesAcceptFree ==
    \A c \in Conns : Stalled(c) =>
        \A d \in Conns \ {c} : (wPc[d] = "none" /\ ~wsServer.done) => CanTake(d)

----------------------------------------------------------------------------
(* Properties of the accept loop of the TLS server *)

\* C30: in a shutdown begun by the cancel function of the proxy or by
\* Close() of a server of the pipeline, the accept loop of the TLS server
\* never takes its log.Fatal branch, in whatever order the contexts of the
\* transport server and of the TLS server are cancelled.
C30_NoFatalOnShutdown ==
    shutdownBy # "none" => tlsPc # "fatal"

\* the part of C30 that holds: a shutdown begun by Close() of the TLS server
\* or of a server above it cancels the context of the TLS server before that
\* of the transport server, and the loop returns
CloseFromAboveIsClean ==
    shutdownBy \in {"tls", "websocket", "trojan"} => tlsPc # "fatal"

----------------------------------------------------------------------------
(* Properties of the certificate poller *)

\* the loop begins a pass: it is about to read the files again
BeginsPass == kLoop'.pc = "check" /\ kLoop.pc \in {"compare", "select"}

\* C31: every pass of checkKeyPairLoop, a failed one too, is followed by the
\* select on the ticker and the context before the next pass begins.
C31_PassWaitsForTick ==
    [][BeginsPass => kLoop.pc = "select"]_vars

\* the part of C31 that holds: the loop returns only from its select and only
\* when the context of the server is done
PollerReturnsOnCancel ==
    [][(kLoop'.pc = "returned" /\ kLoop.pc # "returned") =>
          (kLoop.pc = "select" /\ sDone)]_vars

----------------------------------------------------------------------------
(* Properties of loadKeyPair *)

\* the key file can be decoded and is encrypted with the password given, and
\* the certificate is the key's
GoodProtectedKey ==
    /\ ldKey.readable /\ ldKey.pem /\ ldCert.pem
    /\ ldPassword # "" /\ ldKey.encrypted = ldPassword
    /\ ldKey.key = ldCert.cert

\* C32: with a key file that can be decoded, the right password and the
\* certificate of the key, loadKeyPair returns the key pair and no error.
C32_ProtectedKeyLoads ==
    (ldRet # NotCalled /\ GoodProtectedKey) =>
        ldRet = Loaded("", Pair(ldKey.key, ldCert.cert))

\* the part of C32 that holds: without a password a key that is not
\* encrypted loads with its certificate
PlainKeyLoads ==
    (ldRet # NotCalled /\ ldPassword = "" /\ ldKey.readable /\ ldKey.pem /\ ldCert.pem
        /\ ldKey.encrypted = "" /\ ldKey.key = ldCert.cert) =>
        ldRet = Loaded("", Pair(ldKey.key, ldCert.cert))

----------------------------------------------------------------------------
(* Properties of the IP set over the whole life of a connection *)

\* AddIP succeeded for c and no DelIP was called for it
HoldsIP(c) == tAuth[c].addIP.called /\ tAuth[c].addIP.ok /\ tIO[c].delIP = <<>>

\* the handler of c has returned and sent c on no channel: nothing holds the
\* InboundConn of c any more, so nothing can call its Close()
Dropped(c) == tPc[c] = "done" /\ tSent[c] = <<>>

\* C33: a connection for which AddIP succeeded and whose handler ended it
\* without passing it on (an error of Auth() after AddIP, an unknown
\* command) has had its DelIP call.
C33_EndedReleasesIP ==
    \A c \in Conns : Dropped(c) => ~HoldsIP(c)

\* the part of C33 that holds: DelIP is called at most once for a
\* connection, and only for one that was passed on
DelIPOnlyByClose ==
    \A c \in Conns : Len(tIO[c].delIP) <= 1 /\ (tIO[c].delIP # <<>> => tSent[c] # <<>>)

----------------------------------------------------------------------------
(* Properties of a wildcard match *)

\* name is label + "." + S, S being the pattern without its "*.", with a
\* label that is not empty and has no dot
LabelDotSuffix(pattern, name) ==
    LET S == Drop(pattern, 2)
        k == Len(name) - Len(S)
    IN  /\ k >= 2
        /\ name = Take(name, k - 1) \o Dot \o S
        /\ ~Contains(Take(name, k - 1), Dot)

\* C34: a pattern "*.S" matches a name only if the name is a non-empty label
\* without dots, a dot, and S.
C34_WildcardNeedsDot ==
    (mOut.returned /\ HasPrefix(mIn.pattern, WildcardPrefix) /\ mOut.value) =>
        LabelDotSuffix(mIn.pattern, mIn.domainName)

\* the part of C34 that holds: every name of that form matches
LabelDotSuffixMatches ==
    (mOut.returned /\ HasPrefix(mIn.pattern, WildcardPrefix)
        /\ LabelDotSuffix(mIn.pattern, mIn.domainName)) => mOut.value

----------------------------------------------------------------------------
(* Properties of the redirections of the TLS server *)

\* the redirections the handler of c asked of the redirector
Redirections(c) == {i \in 1..Len(sLog[c]) : sLog[c][i].op = "Redirect"}

\* C35: every redirection of the TLS server goes to a fallback address that
\* is configured, under every configuration.
C35_RedirectHasAddress ==
    \A c \in Conns : \A i \in Redirections(c) : sLog[c][i].to # NilAddress

\* the part of C35 that holds: a failed handshake is redirected only to a
\* configured address
HandshakeRedirectHasAddress ==
    \A c \in Conns : \A i \in Redirections(c) :
        sErr[c] # <<>> => sLog[c][i].to # NilAddress

----------------------------------------------------------------------------
(* Properties of the look-ahead buffer of the Trojan server *)

\* the length of the domain name in the request of c
NameLength(c) == tConn[c].raw[HashLen + 5]

\* Auth() of c has returned after a successful AddIP
AuthEndedWithIP(c) ==
    tPc[c] \in {"dispatch", "done"} /\ tAuth[c].addIP.called /\ tAuth[c].addIP.ok

\* C36: a connection with a known hash, CRLF, a well-formed header with a
\* domain name of 1 to 255 bytes and CRLF, for which AddIP succeeds, is
\* authenticated and not redirected.
C36_LongNameAccepted ==
    \A c \in Conns : AuthEndedWithIP(c) => (tAuth[c].err = "" /\ tRedir[c] = <<>>)

\* the part of C36 that holds: the request is accepted when its name has at
\* most 63 bytes, the whole header then being within the 128 bytes
ShortNameAccepted ==
    \A c \in Conns : (AuthEndedWithIP(c) /\ NameLength(c) <= 63) =>
        (tAuth[c].err = "" /\ tRedir[c] = <<>>)

----------------------------------------------------------------------------
(* Properties of the ownership of a WebSocket connection *)

\* the connection of c was handed to the redirector or closed
Disposed(c) == \E i \in 1..Len(wLog[c]) : wLog[c][i].op \in {"Redirect", "Close"}

\* the ServeHTTP task of c still runs; it closes the connection when it
\* returns
ServeHTTPRuns(c) == wGo[c] \in {"handshaking", "handler", "sending", "waiting"}

\* C37: a connection that AcceptConn took and returned an error for was
\* handed to the redirector or closed, or a task that will close it holds it.
C37_NoOrphan ==
    \A c \in Conns :
        (wPc[c] = "returned" /\ wRet[c] # "InboundConn") =>
            (Disposed(c) \/ ServeHTTPRuns(c))

\* the part of C37 that holds: a connection that is no upgrade request for
\* the path of the server is handed to the redirector, once
RefusedIsRedirected ==
    \A c \in Conns :
        (wPc[c] = "returned"
            /\ wRet[c] \in {"websocket is disabled", "not a valid http request",
                            "not a valid websocket handshake request"}) =>
            (Len(wLog[c]) = 1 /\ wLog[c][1].op = "Redirect")

----------------------------------------------------------------------------
(* Properties of the accept loop of the transport server *)

\* C38: while the transport server is not shut down its accept loop runs,
\* whatever errors Accept returned, so that a connection that arrives later
\* is taken.
C38_AcceptErrorSurvived ==
    ~trServer.done => trLoop = "running"

\* what holds of the delivery: AcceptConn returns only connections that a
\* handler sent to one of the two channels, also after the loop returned
TakenIsDelivered ==
    \A c \in Conns : pGot[c] # <<>> => pDest[c] \in {"connChan", "wsChan"}

----------------------------------------------------------------------------
(* Properties of the mux server *)

\* the streams of carrier k in a sequence of connections, in order
RECURSIVE StreamsOf(_, _)
StreamsOf(k, conns) ==
    IF conns = <<>> THEN <<>>
    ELSE IF Head(conns).carrier = k
    THEN <<Head(conns).stream>> \o StreamsOf(k, Tail(conns))
    ELSE StreamsOf(k, Tail(conns))

\* the streams of carrier k that were sent to the upper layer, in order
\* (connChan is first in, first out)
Delivered(k) == StreamsOf(k, mxGot \o mxChan)

\* the session task of k holds a stream it has not sent
StreamPending(k) == Len(Delivered(k)) < Len(mxTask[k].accepted)

MuxDelivery(k) ==
    /\ mxTask[k].sessions = (IF mxTask[k].pc = "none" THEN 0 ELSE 1)
    /\ Delivered(k) = Take(mxTask[k].accepted, Len(Delivered(k)))
    /\ Len(Delivered(k)) >= Len(mxTask[k].accepted) - 1
    /\ StreamPending(k) => \/ mxTask[k].pc \in {"send", "parked"}
                           \/ mxTask[k].pc = "returned" /\ mxDone
    /\ mxTask[k].pc = "parked" /\ ~mxDone => Len(mxChan) = ChanCap
    /\ (mxTask[k].pc = "returned") = (mxTask[k].sessionClosed /\ mxTask[k].connClosed)
    /\ mxTask[k].sessionClosed = mxTask[k].connClosed

\* the session task of k ends
TaskReturns(k) == mxTask[k].pc # "returned" /\ mxTask'[k].pc = "returned"

\* C39: one session is opened for each carrier connection; the streams of a
\* carrier that reached the upper layer are the streams accepted, each once
\* and in accept order, save the last one while it is pending or when the
\* context was cancelled with it pending; the session task ends only when
\* AcceptStream fails or when the context is done while a delivery is
\* pending, and then the session and the carrier connection are both closed;
\* a task that waits with a delivery pending when the context is cancelled
\* does end.
C39_MuxSession ==
    /\ [](\A k \in Carriers : MuxDelivery(k))
    /\ [][\A k \in Carriers : TaskReturns(k) =>
              /\ \/ mxTask[k].pc = "accept"
                 \/ mxTask[k].pc \in {"send", "parked"} /\ mxDone
              /\ mxTask'[k].sessionClosed /\ mxTask'[k].connClosed
              /\ mxChan' = mxChan]_vars
    /\ \A k \in Carriers :
           (mxTask[k].pc = "parked" /\ mxDone)
               ~> (mxTask[k].pc = "returned" /\ mxTask[k].sessionClosed
                                             /\ mxTask[k].connClosed)

\* the task of carrier 2 waited on the full connChan and the cancellation
\* found it there
ParkedAtCancel ==
    mxTask[2].pc = "returned" /\ Len(mxChan) = ChanCap /\ Delivered(2) = <<1>>

\* both streams of carrier 1 were sent in order, AcceptConn returned
\* connections, and the task of carrier 1 ended on a failed AcceptStream; the
\* task of carrier 2 ended on the cancellation with its second stream
\* pending on the full connChan; both closed what they held
C39_Witness ==
    /\ ParkedAtCancel
    /\ Delivered(1) = <<1, 2>> /\ mxGot # <<>>
    /\ mxTask[1].pc = "returned"
    /\ mxTask[2].pc = "returned" /\ mxDone
    /\ mxTask[2].accepted = <<1, 2>> /\ Delivered(2) = <<1>>
    /\ \A k \in {1, 2} : mxTask[k].sessionClosed /\ mxTask[k].connClosed

----------------------------------------------------------------------------
(* Properties of the protocol tree *)

\* the call of BuildNext that the creator makes next: its node and its name
CallNode == tnRegs[Creator(tnCfg)[tnPc].from]
CallName == Creator(tnCfg)[tnPc].name
Returned == tnRegs'[Creator(tnCfg)[tnPc].to]

\* the call finds the name registered
Found == CallName \in DOMAIN tnNodes[CallNode].Next

\* a later call returns the child registered and leaves the servers and the
\* tree as they are
LaterCall ==
    /\ Returned = tnNodes[CallNode].Next[CallName]
    /\ tnServers' = tnServers
    /\ tnNodes' = tnNodes

\* a first call constructs one server, named name, over the server of its
\* node, and registers one new node that holds it under name; the rest of
\* the tree is as before
FirstCall ==
    /\ Len(tnServers') = Len(tnServers) + 1
    /\ Take(tnServers', Len(tnServers)) = tnServers
    /\ tnServers'[Len(tnServers')] =
           [name |-> CallName, underlay |-> tnNodes[CallNode].Server]
    /\ Len(tnNodes') = Len(tnNodes) + 1
    /\ Returned = Len(tnNodes')
    /\ tnNodes'[Returned] = Node(CallName, Len(tnServers'))
    /\ DOMAIN tnNodes'[CallNode].Next = DOMAIN tnNodes[CallNode].Next \cup {CallName}
    /\ tnNodes'[CallNode].Next[CallName] = Returned
    /\ \A x \in DOMAIN tnNodes[CallNode].Next :
           tnNodes'[CallNode].Next[x] = tnNodes[CallNode].Next[x]
    /\ \A m \in 1..Len(tnNodes) :
           /\ m # CallNode => tnNodes'[m] = tnNodes[m]
           /\ tnNodes'[m].Server = tnNodes[m].Server
           /\ tnNodes'[m].Name = tnNodes[m].Name

\* the nodes named name
Named(name) == {m \in 1..Len(tnNodes) : tnNodes[m].Name = name}

\* no two servers of one name lie over the same server, and every server is
\* held by one node
OneServerEach ==
    /\ \A s, t \in 1..Len(tnServers) : tnServers[s] = tnServers[t] => s = t
    /\ Len(tnNodes) = Len(tnServers)
    /\ \A m \in 1..Len(tnNodes) : tnNodes[m].Server = m

\* the mux server of a trojan node lies over the server of that node, which
\* is in serverList as well
SharedTrojan ==
    tnExit = "created" =>
        /\ Cardinality(Named("TROJAN")) = 2
        /\ \A t \in Named("TROJAN") :
               /\ tnNodes[t].Server \in tnList
               /\ DOMAIN tnNodes[t].Next = {"MUX"}
               /\ tnServers[tnNodes[tnNodes[t].Next["MUX"]].Server].underlay
                      = tnNodes[t].Server

\* C40: a call of BuildNext with a name that its node has registered returns
\* the registered child and changes neither the servers nor the tree; a call
\* with a new name that returns has constructed one server over the server
\* of its node and registered one new node under the name; so the tree of
\* the server creator has one Trojan server under each subtree, and the mux
\* branch lies over the server that is the Trojan endpoint.
C40_BuildNextOnce ==
    /\ [][CreatorBuild => IF Found THEN LaterCall ELSE FirstCall]_vars
    /\ [](OneServerEach /\ SharedTrojan)

\* the creator returned the proxy after both second calls of
\* BuildNext(trojan.Name): nine servers, seven of them above tls, four in
\* serverList
C40_Witness ==
    /\ tnExit = "created"
    /\ ~tnCfg.plugin /\ ~tnCfg.shadowsocks
    /\ Len(tnServers) = 9
    /\ Cardinality(tnList) = 4
    /\ \A t \in Named("TROJAN") : tnNodes[t].IsEndpoint
=============================================================================
